---- MODULE Spec2Model ----
(***************************************************************************)
(* Model of perf-tracking/tools/collect_benchmarks.py: the report parser,  *)
(* the statistics engine, the merge engine, the retry filter builder and   *)
(* the variance-aware collection controller with the part of main() that   *)
(* drives one version's session.                                           *)
(*                                                                         *)
(* A benchmark name is a sequence of tokens: identifiers, the level        *)
(* separator "/" and CPU-suffix tokens such as "-16" (what the code's      *)
(* regex -\d+ matches).  A report line is a record [k, n, v]: k is what    *)
(* the parser's prefix tests and regexes see in it, n the benchmark name   *)
(* of a result line, v its ns/op value.  A report text is a sequence of    *)
(* lines, a file system a function from paths to texts or NoFile.          *)
(***************************************************************************)
EXTENDS Integers, Sequences, FiniteSets, TLC

VARIABLES
    files,              \* path -> report text (sequence of lines) or NoFile
    \* ---- merge_benchmark_results
    mpc,                \* position inside merge_benchmark_results
    mOut,               \* output_file argument
    mAuth,              \* successful_benchmarks argument
    mSections,          \* original.sections after the replacement loop
    mMissing,           \* missing_benchmarks
    mResult,            \* return value ("none" until it returns)
    \* ---- create_benchmark_filters
    fpc,                \* position of the filter builder
    fNames,             \* benchmark_names argument
    fOut,               \* returned list of filter expressions
    \* ---- main / run_variance_aware_benchmarks (fresh collection)
    pc,                 \* position of the session
    variance_threshold, \* args.variance_threshold
    max_reruns,         \* args.max_reruns
    retry_count,        \* retry_count
    stats,              \* stats of the initial analysis
    failed,             \* failed: names still failing
    bench_filters,      \* filters built for the current retry
    result,             \* the dict the session returns
    versionStatus,      \* progress.state['versions'][version]['status']
    failurePath,        \* main took the "Benchmark collection failed" branch
    failedFile,         \* <timestamp>_failed_benchmarks.txt written by main
    mergeCalls,         \* calls of merge_benchmark_results made by the session
    analyses,           \* history: failing set of every analysis, in order
    execFailedAt,       \* history: the run whose executor failed (0 initial, n retry n), or -1
    resolved,           \* history: name -> lines of the retry in which it passed
    \* ---- parse_benchmark_file and the write loop, applied in turn
    rpc,                \* position of the round trip
    rText,              \* the report text given
    rSections,          \* its sections
    rOut,               \* the text the write loop produces from them
    rAgain,             \* the sections of that text
    \* ---- BenchmarkParser.calculate_stats
    spc,                \* position of the statistics call
    sResults,           \* results argument
    sStats,             \* returned statistics
    \* ---- main, resume mode: the merge step
    resumePc,           \* position of main around the merge of the resume branch
    \* ---- derive_original_output_file
    dpc,                \* position of the call
    dPath,              \* failed_benchmarks_file argument
    dResult,            \* returned path, or the error raised
    \* ---- BenchmarkParser.parse_file
    ppc,                \* position of the call
    pLines,             \* lines of the file
    pResults,           \* results returned
    \* ---- main: the loop over the versions
    mainPc,             \* position of main in the loop
    args_versions,      \* args.versions
    args_rerun_failed,  \* args.rerun_failed is given (resume mode)
    args_progress,      \* args.progress
    version_index,      \* index in args.versions of the version of the current iteration
    progress_state,     \* progress.state: status of every version and current_version
    results_dir,        \* runner.results_dir: "None" until detect_platform has set it
    started,            \* history: indices of the versions whose iteration began
    raised,             \* the exception that left main ("none": none did)
    exit_status,        \* exit status of the process (NoStatus while main runs)
    troubled,           \* history: versions (indices) that failed or stayed unresolved
    \* ---- StreamingBenchmarkRunner.run_with_streaming
    xpc,                \* position of the call
    child,              \* proc: "none" before Popen, then "running" or "exited"
    stdout_eof,         \* the child has closed its output
    output_lines,       \* output_lines: the lines read so far
    signals,            \* history: the signals sent to the child, in order
    leftBy,             \* how the try block was left: "return", "exception" or "interrupt"
    \* ---- main, resume mode (--rerun-failed)
    failed_benchmarks,  \* failed_benchmarks: the names read from the names file
    failed_file,        \* content of the names file (a list of names)
    original_file,      \* content of the original report
    backup_file,        \* content of <name>.txt.backup, or NoFile
    successful,         \* successful: the names given to the merge
    merge_ok            \* what merge_benchmark_results returned ("none": not called)

varsMerge == <<mpc, mOut, mAuth, mSections, mMissing, mResult>>
varsFilter == <<fpc, fNames, fOut>>
varsSession == <<pc, variance_threshold, max_reruns, retry_count, stats, failed,
                 bench_filters, result, versionStatus, failurePath, failedFile,
                 mergeCalls, analyses, execFailedAt, resolved>>
varsRound == <<rpc, rText, rSections, rOut, rAgain>>
varsStats == <<spc, sResults, sStats>>
varsResume == <<resumePc>>
varsDerive == <<dpc, dPath, dResult>>
varsParseFile == <<ppc, pLines, pResults>>
varsMain == <<mainPc, args_versions, args_rerun_failed, args_progress, version_index,
              progress_state, results_dir, started, raised, exit_status, troubled>>
varsStream == <<xpc, child, stdout_eof, output_lines, signals, leftBy>>
varsRerun == <<failed_benchmarks, failed_file, original_file, backup_file, successful, merge_ok>>
vars == <<files, varsMerge, varsFilter, varsSession, varsRound, varsStats, varsResume, varsDerive, varsParseFile, varsMain, varsStream, varsRerun>>

\* no exit status: the process is running
NoStatus == -1

\* the content of a path that holds no file
NoFile == <<[k |-> "nofile", n |-> <<>>, v |-> 0]>>

(***************************************************************************)
(* Generic helpers.                                                        *)
(***************************************************************************)
Range(s) == {s[i] : i \in 1..Len(s)}

RECURSIVE SeqsUpTo(_, _)
SeqsUpTo(S, n) ==
    IF n = 0 THEN {<<>>}
    ELSE LET shorter == SeqsUpTo(S, n - 1)
         IN shorter \cup {Append(s, x) : s \in {t \in shorter : Len(t) = n - 1}, x \in S}

RECURSIVE Flatten(_)
Flatten(ss) == IF ss = <<>> THEN <<>> ELSE Head(ss) \o Flatten(Tail(ss))

(***************************************************************************)
(* Report lines.                                                           *)
(***************************************************************************)
NoName == <<>>
GoosLine == [k |-> "goos", n |-> NoName, v |-> 0]       \* "goos: linux"
PkgLine(p) == [k |-> "hdr", n |-> NoName, v |-> p]      \* "pkg: <package p>"
HdrLine == [k |-> "hdr", n |-> NoName, v |-> 0]         \* "goarch:", "pkg:", "cpu:"
BenchLine(name, ns) == [k |-> "bench", n |-> name, v |-> ns]  \* "<name>-16 1000 <ns> ns/op"
BenchRawLine == [k |-> "benchraw", n |-> NoName, v |-> 0]  \* "Benchmark..." without -N
BenchNoteLine(name) == [k |-> "benchnote", n |-> name, v |-> 0]  \* "<name>-16 --- FAIL: ..."
FootLine == [k |-> "foot", n |-> NoName, v |-> 0]       \* "PASS", "ok ...", "FAIL"
OtherLine == [k |-> "other", n |-> NoName, v |-> 0]     \* anything else

StartsWithBenchmark(line) == line.k \in {"bench", "benchnote", "benchraw"}
NameMatch(line) == line.k \in {"bench", "benchnote"}

(***************************************************************************)
(* parse_benchmark_file: a fold over the lines.  st.cur is current_section *)
(* ("none" for None), st.bl the ordered list built from benchmark_order    *)
(* and benchmark_lines_dict.                                               *)
(***************************************************************************)
PackageSection(h, b, f) == [header_lines |-> h, benchmark_lines |-> b, footer_lines |-> f]

ParseInit == [sections |-> <<>>, cur |-> "none", hdr |-> <<>>, bl |-> <<>>, ft |-> <<>>]

\* faulty variant: a section without benchmark entries is not saved
SaveSectionNonEmpty(st) ==
    IF st.bl # <<>>
    THEN [st EXCEPT !.sections = Append(@, PackageSection(st.hdr, st.bl, st.ft)),
                    !.hdr = <<>>, !.bl = <<>>, !.ft = <<>>]
    ELSE [st EXCEPT !.hdr = <<>>, !.bl = <<>>, !.ft = <<>>]

SaveSection(st) ==
    IF st.cur # "none" \/ st.hdr # <<>>
    THEN [st EXCEPT !.sections = Append(@, PackageSection(st.hdr, st.bl, st.ft)),
                    !.hdr = <<>>, !.bl = <<>>, !.ft = <<>>]
    ELSE st

\* faulty variant: every line opens an entry of its own
AddBenchLineAlwaysNew(bl, name, line) == Append(bl, <<name, <<line>>>>)

AddBenchLine(bl, name, line) ==
    IF \E i \in 1..Len(bl) : bl[i][1] = name
    THEN [i \in 1..Len(bl) |-> IF bl[i][1] = name
                                THEN <<name, Append(bl[i][2], line)>>
                                ELSE bl[i]]
    ELSE Append(bl, <<name, <<line>>>>)

ParseLine(st, line) ==
    IF line.k = "goos"
    THEN [SaveSection(st) EXCEPT !.hdr = Append(@, line), !.cur = "header"]
    ELSE IF st.cur = "header" /\ line.k = "hdr"
    THEN [st EXCEPT !.hdr = Append(@, line)]
    ELSE IF StartsWithBenchmark(line)
    THEN IF NameMatch(line)
         THEN [st EXCEPT !.cur = "benchmarks", !.bl = AddBenchLine(@, line.n, line)]
         ELSE [st EXCEPT !.cur = "benchmarks"]
    ELSE IF st.cur = "benchmarks" /\ line.k = "foot"
    THEN [st EXCEPT !.ft = Append(@, line), !.cur = "footer"]
    ELSE IF st.cur = "footer"
    THEN [st EXCEPT !.ft = Append(@, line)]
    ELSE st

RECURSIVE ParseLines(_, _)
ParseLines(st, text) ==
    IF text = <<>> THEN st ELSE ParseLines(ParseLine(st, Head(text)), Tail(text))

parse_benchmark_file(text) == SaveSection(ParseLines(ParseInit, text)).sections

(***************************************************************************)
(* merge_benchmark_results, the in-memory part.                            *)
(***************************************************************************)
\* retry_benchmarks: the lookup built over all sections of the retry report;
\* a later entry of the same name overwrites an earlier one.
RetryEntries(retry) == Flatten([i \in 1..Len(retry) |-> retry[i].benchmark_lines])

InRetry(retry, name) == \E i \in 1..Len(RetryEntries(retry)) : RetryEntries(retry)[i][1] = name

retry_benchmarks(retry, name) ==
    LET es == RetryEntries(retry)
        last == CHOOSE i \in 1..Len(es) :
                    /\ es[i][1] = name
                    /\ \A j \in (i + 1)..Len(es) : es[j][1] # name
    IN es[last][2]

\* faulty variant: replaces every entry the retry report holds, authorized or not
MergeEntryIgnoreAuthorized(entry, retry, authorized) ==
    IF InRetry(retry, entry[1])
    THEN <<entry[1], retry_benchmarks(retry, entry[1])>>
    ELSE entry

MergeEntry(entry, retry, authorized) ==
    IF entry[1] \in authorized
    THEN IF InRetry(retry, entry[1])
         THEN <<entry[1], retry_benchmarks(retry, entry[1])>>
         ELSE entry
    ELSE entry

\* faulty variant: puts the replaced entries after the kept ones
MergeSectionReplacedLast(section, retry, authorized) ==
    LET b == section.benchmark_lines
        hit == {i \in 1..Len(b) : b[i][1] \in authorized /\ InRetry(retry, b[i][1])}
        keep == {i \in 1..Len(b) : i \notin hit}
        RECURSIVE Asc(_)
        Asc(S) == IF S = {} THEN <<>>
                  ELSE LET m == CHOOSE x \in S : \A y \in S : x <= y
                       IN <<MergeEntry(b[m], retry, authorized)>> \o Asc(S \ {m})
    IN [section EXCEPT !.benchmark_lines = Asc(keep) \o Asc(hit)]

MergeSection(section, retry, authorized) ==
    [section EXCEPT !.benchmark_lines =
        [i \in 1..Len(section.benchmark_lines) |->
            MergeEntry(section.benchmark_lines[i], retry, authorized)]]

MergeSections(original, retry, authorized) ==
    [s \in 1..Len(original) |-> MergeSection(original[s], retry, authorized)]

\* missing_benchmarks, in the order the loop appends them
MissingBenchmarks(original, retry, authorized) ==
    LET all == Flatten([i \in 1..Len(original) |-> original[i].benchmark_lines])
    IN SelectSeq([i \in 1..Len(all) |-> all[i][1]],
                 LAMBDA nm : nm \in authorized /\ ~InRetry(retry, nm))

\* the text the write loop produces: headers, each entry's lines, footers
SerializeSection(section) ==
    section.header_lines
        \o Flatten([i \in 1..Len(section.benchmark_lines) |-> section.benchmark_lines[i][2]])
        \o section.footer_lines

Serialize(sections) == Flatten([i \in 1..Len(sections) |-> SerializeSection(sections[i])])

(***************************************************************************)
(* create_benchmark_filters.  A filter expression is the token sequence of *)
(* the string the code builds: "^(", the names joined by "|", ")$", and    *)
(* for the sub-test filter "/" and a second group.                         *)
(***************************************************************************)
CpuSuffixTokens == {"-16", "-2"}

\* faulty variant: the CPU suffix is kept
StripCpuSuffixKept(name) == name

\* re.sub(r'-\d+$', '', name)
StripCpuSuffix(name) ==
    IF name # <<>> /\ name[Len(name)] \in CpuSuffixTokens
    THEN SubSeq(name, 1, Len(name) - 1)
    ELSE name

HasSlash(name) == \E i \in 1..Len(name) : name[i] = "/"
FirstSlash(name) == CHOOSE i \in 1..Len(name) : name[i] = "/" /\ \A j \in 1..(i - 1) : name[j] # "/"
\* name.split('/', 1)
SplitParent(name) == SubSeq(name, 1, FirstSlash(name) - 1)
SplitSub(name) == SubSeq(name, FirstSlash(name) + 1, Len(name))

\* Python's string order on the joined tokens: no token is a prefix of another,
\* so it is the lexicographic order of the token sequences by character rank.
TokenOrder == <<"-16", "-2", "/", "BenchmarkA", "BenchmarkB", "BenchmarkP", "Sub1", "Sub2">>
TokenRank(t) == CHOOSE i \in 1..Len(TokenOrder) : TokenOrder[i] = t

RECURSIVE StrLess(_, _)
StrLess(a, b) ==
    IF b = <<>> THEN FALSE
    ELSE IF a = <<>> THEN TRUE
    ELSE IF Head(a) = Head(b) THEN StrLess(Tail(a), Tail(b))
    ELSE TokenRank(Head(a)) < TokenRank(Head(b))

RECURSIVE Sorted(_)
Sorted(S) ==
    IF S = {} THEN <<>>
    ELSE LET m == CHOOSE x \in S : \A y \in S \ {x} : StrLess(x, y)
         IN <<m>> \o Sorted(S \ {m})

RECURSIVE Join(_, _)
Join(names, sep) ==
    IF names = <<>> THEN <<>>
    ELSE IF Len(names) = 1 THEN names[1]
    ELSE names[1] \o <<sep>> \o Join(Tail(names), sep)

Group(S) == <<"^(">> \o Join(Sorted(S), "|") \o <<")$">>

\* faulty variant: one combined expression for a mixed list
create_benchmark_filters_combined(benchmark_names) ==
    LET parsed == {StripCpuSuffix(benchmark_names[i]) : i \in 1..Len(benchmark_names)}
        top_levels == {n \in parsed : ~HasSlash(n)}
        parents == {SplitParent(n) : n \in {x \in parsed : HasSlash(x)}}
        subtests == {SplitSub(n) : n \in {x \in parsed : HasSlash(x)}}
    IN IF parents = {} THEN (IF top_levels # {} THEN <<Group(top_levels)>> ELSE <<>>)
       ELSE <<Group(top_levels \cup parents) \o <<"/">> \o Group(subtests)>>

create_benchmark_filters(benchmark_names) ==
    LET parsed == {StripCpuSuffix(benchmark_names[i]) : i \in 1..Len(benchmark_names)}
        top_levels == {n \in parsed : ~HasSlash(n)}
        parents == {SplitParent(n) : n \in {x \in parsed : HasSlash(x)}}
        subtests == {SplitSub(n) : n \in {x \in parsed : HasSlash(x)}}
    IN (IF top_levels # {} THEN <<Group(top_levels)>> ELSE <<>>)
       \o (IF parents # {} THEN <<Group(parents) \o <<"/">> \o Group(subtests)>> ELSE <<>>)

(***************************************************************************)
(* BenchmarkParser: parse_file and calculate_stats.  Statistics are kept   *)
(* as exact integers: count, sum and sum of squares of the ns/op values;   *)
(* mean = sum/count, stdev^2 = (count*sumsq - sum^2) / (count*(count-1)),  *)
(* and every comparison of CV = stdev/mean*100 with a bound is made on the *)
(* squares, cross-multiplied.                                              *)
(***************************************************************************)
VARIANCE_GOOD == 5
VARIANCE_ACCEPTABLE == 10
VARIANCE_WARNING == 15
VARIANCE_HIGH == 30

\* BENCH_PATTERN matches the line
IsResultLine(line) == line.k = "bench"

parse_file(text) ==
    LET hits == SelectSeq(text, IsResultLine)
    IN [i \in 1..Len(hits) |-> [name |-> hits[i].n, ns_per_op |-> hits[i].v]]

RECURSIVE SumSeq(_)
SumSeq(xs) == IF xs = <<>> THEN 0 ELSE Head(xs) + SumSeq(Tail(xs))

ValuesOf(results, name) ==
    LET own == SelectSeq(results, LAMBDA r : r.name = name)
    IN [i \in 1..Len(own) |-> own[i].ns_per_op]

StatsOf(name, values) ==
    [name |-> name,
     count |-> Len(values),
     sum |-> SumSeq(values),
     sumsq |-> SumSeq([i \in 1..Len(values) |-> values[i] * values[i]]),
     min_val |-> CHOOSE x \in Range(values) : \A y \in Range(values) : x <= y,
     max_val |-> CHOOSE x \in Range(values) : \A y \in Range(values) : y <= x]

\* faulty variant: groups of a single sample are kept
calculate_stats_keep_single(results) ==
    LET names == {results[i].name : i \in 1..Len(results)}
    IN [n \in names |-> CHOOSE s \in {StatsOf(n, values) : values \in {ValuesOf(results, n)}} : TRUE]

calculate_stats(results) ==
    LET names == {results[i].name : i \in 1..Len(results)}
        kept == {n \in names : Len(ValuesOf(results, n)) >= 2}
    IN [n \in kept |-> CHOOSE s \in {StatsOf(n, values) : values \in {ValuesOf(results, n)}} : TRUE]

\* count * (count - 1) * stdev^2
Spread(st) == st.count * st.sumsq - st.sum * st.sum

\* faulty variant: cv computed without the test of the mean
CvBelowUnguarded(st, bound) ==
    10000 * st.count * Spread(st) < bound * bound * st.sum * st.sum * (st.count - 1)

\* faulty variant: the population standard deviation (divisor n)
CvBelowPopulation(st, bound) ==
    IF st.sum > 0
    THEN 10000 * st.count * Spread(st) < bound * bound * st.sum * st.sum * st.count
    ELSE 0 < bound

\* cv < bound and cv > bound, for bound >= 0; cv is 0 unless mean > 0
CvBelow(st, bound) ==
    IF st.sum > 0
    THEN 10000 * st.count * Spread(st) < bound * bound * st.sum * st.sum * (st.count - 1)
    ELSE 0 < bound

CvAbove(st, bound) ==
    IF st.sum > 0
    THEN 10000 * st.count * Spread(st) > bound * bound * st.sum * st.sum * (st.count - 1)
    ELSE FALSE

\* faulty variant: the thresholds compared with <=
category_inclusive(st) ==
    IF ~CvAbove(st, VARIANCE_GOOD) THEN "good"
    ELSE IF ~CvAbove(st, VARIANCE_ACCEPTABLE) THEN "acceptable"
    ELSE IF ~CvAbove(st, VARIANCE_WARNING) THEN "warning"
    ELSE IF ~CvAbove(st, VARIANCE_HIGH) THEN "high"
    ELSE "very_high"

category(st) ==
    IF CvBelow(st, VARIANCE_GOOD) THEN "good"
    ELSE IF CvBelow(st, VARIANCE_ACCEPTABLE) THEN "acceptable"
    ELSE IF CvBelow(st, VARIANCE_WARNING) THEN "warning"
    ELSE IF CvBelow(st, VARIANCE_HIGH) THEN "high"
    ELSE "very_high"

passed(st) == CvBelow(st, VARIANCE_WARNING)

(***************************************************************************)
(* BenchmarkRunner.analyze_variance: (stats, failed).  failed is kept as   *)
(* the set of its names: the code reads the list only for emptiness,       *)
(* membership and length.                                                  *)
(***************************************************************************)
\* faulty variant: fails every high-variance benchmark, whatever the threshold
analyze_variance_ignore_threshold(text, threshold) ==
    LET high_variance(st) == {n \in DOMAIN st : category(st[n]) \in {"high", "very_high"}}
    IN CHOOSE a \in {[stats |-> st, failed |-> high_variance(st)] :
                        st \in {calculate_stats(results) : results \in {parse_file(text)}}} : TRUE

analyze_variance(text, threshold) ==
    LET high_variance(st) == {n \in DOMAIN st : category(st[n]) \in {"high", "very_high"}}
        failed_of(st) == {n \in high_variance(st) : CvAbove(st[n], threshold)}
    IN CHOOSE a \in {[stats |-> st, failed |-> failed_of(st)] :
                        st \in {calculate_stats(results) : results \in {parse_file(text)}}} : TRUE

(***************************************************************************)
(* Bounds and inputs of the merge specification.                           *)
(***************************************************************************)
MaxOrigLines == 3
MaxRetryLines == 2

BenchmarkA == <<"BenchmarkA">>
BenchmarkB == <<"BenchmarkB">>
BenchmarkC == <<"BenchmarkC">>

OrigAlphabet == {GoosLine, FootLine, BenchLine(BenchmarkA, 100),
                 BenchLine(BenchmarkB, 100), BenchLine(BenchmarkC, 100)}
RetryAlphabet == {GoosLine, BenchLine(BenchmarkB, 200), BenchLine(BenchmarkB, 300)}
AuthorizedSets == SUBSET {BenchmarkA, BenchmarkB}

MergePaths == {"original_file", "retry_file", "output_file", "temp"}

\* reports of two packages that both have a BenchmarkA, and replacement
\* reports for both packages or for one of them
SectionOf(p, ns) == <<GoosLine, PkgLine(p), BenchLine(BenchmarkA, ns), FootLine>>
TwoPackageOriginals == {SectionOf(1, 100) \o SectionOf(2, 100)}
TwoPackageRetries == {SectionOf(1, 200) \o SectionOf(2, 300), SectionOf(1, 200),
                      SectionOf(2, 300)}

\* what the destination directory holds before the merge: an older report at
\* the destination, nothing at the temporary path
StaleReport == <<GoosLine, BenchLine(BenchmarkC, 100), FootLine>>
PreMerge(path) == IF path = "output_file" THEN StaleReport ELSE NoFile

(***************************************************************************)
(* merge_benchmark_results(original_file, retry_file, output_file,         *)
(* successful_benchmarks) step by step: parse and replace in memory,       *)
(* create the temporary file, write it line by line, rename it onto        *)
(* output_file; an exception at any step ends in "return False".           *)
(***************************************************************************)
MergeCompute ==
    /\ mpc = "start"
    /\ files["original_file"] # NoFile
    /\ files["retry_file"] # NoFile
    /\ LET original == parse_benchmark_file(files["original_file"])
           retry == parse_benchmark_file(files["retry_file"])
       IN /\ mSections' = MergeSections(original, retry, mAuth)
          /\ mMissing' = MissingBenchmarks(original, retry, mAuth)
    /\ mpc' = "merged"
    /\ UNCHANGED <<files, mOut, mAuth, mResult, varsFilter, varsSession,
                   varsRound, varsStats, varsResume,
                   varsDerive, varsParseFile, varsMain, varsStream, varsRerun>>

\* open() of a missing input raises inside parse_benchmark_file: the outer
\* handler returns False
MergeParseFails ==
    /\ mpc = "start"
    /\ files["original_file"] = NoFile \/ files["retry_file"] = NoFile
    /\ mResult' = "False"
    /\ mpc' = "returned"
    /\ UNCHANGED <<files, mOut, mAuth, mSections, mMissing, varsFilter, varsSession,
                   varsRound, varsStats, varsResume,
                   varsDerive, varsParseFile, varsMain, varsStream, varsRerun>>

\* faulty variant: the merged text is written straight to the destination
WritePathDirect == mOut

\* temp_fd, temp_path = tempfile.mkstemp(dir=output_file.parent, suffix='.txt')
WritePath == "temp"

MergeCreateTemp ==
    /\ mpc = "merged"
    /\ files' = [files EXCEPT ![WritePath] = <<>>]
    /\ mpc' = "writing"
    /\ UNCHANGED <<mOut, mAuth, mSections, mMissing, mResult, varsFilter, varsSession,
                   varsRound, varsStats, varsResume,
                   varsDerive, varsParseFile, varsMain, varsStream, varsRerun>>

\* one f.write(line + '\n') of the write loop
MergeWriteLine ==
    /\ mpc = "writing"
    /\ Len(files[WritePath]) < Len(Serialize(mSections))
    /\ files' = [files EXCEPT ![WritePath] = Append(@, Serialize(mSections)[Len(@) + 1])]
    /\ UNCHANGED <<mpc, mOut, mAuth, mSections, mMissing, mResult, varsFilter, varsSession,
                   varsRound, varsStats, varsResume,
                   varsDerive, varsParseFile, varsMain, varsStream, varsRerun>>

\* shutil.move(temp_path, output_file); return True
MergeRename ==
    /\ mpc = "writing"
    /\ Len(files[WritePath]) = Len(Serialize(mSections))
    /\ files' = [files EXCEPT ![mOut] = files[WritePath], !["temp"] = NoFile]
    /\ mResult' = "True"
    /\ mpc' = "returned"
    /\ UNCHANGED <<mOut, mAuth, mSections, mMissing, varsFilter, varsSession,
                   varsRound, varsStats, varsResume,
                   varsDerive, varsParseFile, varsMain, varsStream, varsRerun>>

\* faulty variant: the temporary file is left behind
AfterCleanupKept(text) == text

\* if Path(temp_path).exists(): os.unlink(temp_path)
AfterCleanup(text) == NoFile

\* an exception from mkstemp, from a write or from the move: the inner handler
\* removes the temporary file and re-raises, the outer one returns False
MergeFails ==
    /\ mpc \in {"merged", "writing"}
    /\ files' = [files EXCEPT !["temp"] = AfterCleanup(@)]
    /\ mResult' = "False"
    /\ mpc' = "returned"
    /\ UNCHANGED <<mOut, mAuth, mSections, mMissing, varsFilter, varsSession,
                   varsRound, varsStats, varsResume,
                   varsDerive, varsParseFile, varsMain, varsStream, varsRerun>>

FilterIdle ==
    /\ fpc = "idle" /\ fNames = <<>> /\ fOut = <<>>

RoundIdle ==
    /\ rpc = "idle" /\ rText = <<>> /\ rSections = <<>> /\ rOut = <<>> /\ rAgain = <<>>

StatsIdle ==
    /\ spc = "idle" /\ sResults = <<>> /\ sStats = <<>>

RerunIdle ==
    /\ failed_benchmarks = <<>> /\ failed_file = <<>> /\ original_file = NoFile
    /\ backup_file = NoFile /\ successful = <<>> /\ merge_ok = "none"

StreamIdle ==
    /\ xpc = "idle" /\ child = "none" /\ stdout_eof = FALSE /\ output_lines = <<>>
    /\ signals = <<>> /\ leftBy = "none"

MainIdle ==
    /\ mainPc = "idle" /\ args_versions = <<>> /\ args_rerun_failed = FALSE
    /\ args_progress = FALSE /\ version_index = 0 /\ progress_state = <<>>
    /\ results_dir = "None" /\ started = {} /\ raised = "none"
    /\ exit_status = NoStatus /\ troubled = {}

ParseFileIdle ==
    /\ ppc = "idle" /\ pLines = <<>> /\ pResults = <<>>

DeriveIdle ==
    /\ dpc = "idle" /\ dPath = <<>> /\ dResult = <<>>

ResumeIdle ==
    /\ resumePc = "idle"

SessionIdle ==
    /\ pc = "idle" /\ variance_threshold = 0 /\ max_reruns = 0 /\ retry_count = 0
    /\ stats = <<>> /\ failed = {} /\ bench_filters = <<>> /\ result = <<>>
    /\ versionStatus = "pending" /\ failurePath = FALSE /\ failedFile = <<>>
    /\ mergeCalls = 0 /\ analyses = <<>> /\ execFailedAt = -1 /\ resolved = <<>>

MergeIdle ==
    /\ mpc = "idle" /\ mOut = "output_file" /\ mAuth = {} /\ mSections = <<>>
    /\ mMissing = <<>> /\ mResult = "none"

InitMerge ==
    /\ \E in \in ((SeqsUpTo(OrigAlphabet, MaxOrigLines) \cup {NoFile})
                      \X (SeqsUpTo(RetryAlphabet, MaxRetryLines) \cup {NoFile}))
                  \cup (TwoPackageOriginals \X TwoPackageRetries) :
          files = [p \in MergePaths |->
                      IF p = "original_file" THEN in[1]
                      ELSE IF p = "retry_file" THEN in[2]
                      ELSE PreMerge(p)]
    /\ mpc = "start"
    /\ mOut = "output_file"
    /\ mAuth \in AuthorizedSets
    /\ mSections = <<>>
    /\ mMissing = <<>>
    /\ mResult = "none"
    /\ FilterIdle
    /\ SessionIdle
    /\ RoundIdle
    /\ StatsIdle
    /\ ResumeIdle
    /\ DeriveIdle
    /\ ParseFileIdle
    /\ MainIdle
    /\ StreamIdle
    /\ RerunIdle

NextMerge ==
    \/ MergeCompute
    \/ MergeParseFails
    \/ MergeCreateTemp
    \/ MergeWriteLine
    \/ MergeRename
    \/ MergeFails

SpecMerge == InitMerge /\ [][NextMerge]_vars

(***************************************************************************)
(* Claims about the merge engine (checked under SpecMerge).                *)
(***************************************************************************)
MergedOriginal == parse_benchmark_file(files["original_file"])
MergedRetry == parse_benchmark_file(files["retry_file"])

\* the entries of the replacement report named nm, as <<section, entry>> places
PlacesOf(rep, nm) ==
    UNION {{<<r, j>> : j \in {x \in 1..Len(rep[r].benchmark_lines) :
                                  rep[r].benchmark_lines[x][1] = nm}} :
           r \in 1..Len(rep)}

\* the replacement report's line list for nm: that of its last section holding nm
ReplacementLines(rep, nm) ==
    LET pl == CHOOSE q \in PlacesOf(rep, nm) :
                  \A o \in PlacesOf(rep, nm) : o[1] <= q[1]
    IN rep[pl[1]].benchmark_lines[pl[2]][2]

\* C1: once the replacement loop has run, every entry of every original section
\* holds the replacement report's lines for its name if the name is authorized
\* and occurs in the replacement report, and the original's lines otherwise.
C1_MergeReplacesAuthorizedPresent ==
    (mpc \in {"merged", "writing"} \/ mResult = "True") =>
        LET original == MergedOriginal
            replacement == MergedRetry
        IN /\ Len(mSections) = Len(original)
           /\ \A s \in 1..Len(original) :
                 /\ Len(mSections[s].benchmark_lines) = Len(original[s].benchmark_lines)
                 /\ \A i \in 1..Len(original[s].benchmark_lines) :
                       LET orig == original[s].benchmark_lines[i]
                           out == mSections[s].benchmark_lines[i]
                       IN IF orig[1] \in mAuth /\ PlacesOf(replacement, orig[1]) # {}
                          THEN out[2] = ReplacementLines(replacement, orig[1])
                          ELSE out[2] = orig[2]

\* C1 witness: a finished merge in which one entry was replaced by different
\* lines, one authorized entry absent from the replacement kept its lines and
\* one unauthorized entry kept its lines.
C1_Witness ==
    /\ mResult = "True"
    /\ mAuth = {BenchmarkA, BenchmarkB}
    /\ Len(MergedOriginal) = 1
    /\ \E i, j, k \in 1..Len(MergedOriginal[1].benchmark_lines) :
          /\ MergedOriginal[1].benchmark_lines[i][1] = BenchmarkB
          /\ mSections[1].benchmark_lines[i][2] # MergedOriginal[1].benchmark_lines[i][2]
          /\ MergedOriginal[1].benchmark_lines[j][1] = BenchmarkA
          /\ mSections[1].benchmark_lines[j] = MergedOriginal[1].benchmark_lines[j]
          /\ MergedOriginal[1].benchmark_lines[k][1] = BenchmarkC
          /\ mSections[1].benchmark_lines[k] = MergedOriginal[1].benchmark_lines[k]

\* the packages a section's header names ("pkg: ..." lines)
PackagesOf(section) ==
    {section.header_lines[i].v :
        i \in {j \in 1..Len(section.header_lines) :
                  section.header_lines[j].k = "hdr" /\ section.header_lines[j].v # 0}}

\* every section of the report names one package, each section another one
PackagesKnown(report) ==
    /\ \A s \in 1..Len(report) : Cardinality(PackagesOf(report[s])) = 1
    /\ \A s, t \in 1..Len(report) : s # t => PackagesOf(report[s]) # PackagesOf(report[t])

\* C40: a merge never moves lines across packages: once the replacement loop
\* has run on reports whose sections name their packages, an entry of an
\* original section that was given other lines holds the lines of the entry
\* of its name in the replacement report's section of the same package, and
\* an entry whose package has no entry of that name in the replacement
\* report keeps its own lines.
C40_MergeStaysInsidePackage ==
    ((mpc \in {"merged", "writing"} \/ mResult = "True")
        /\ PackagesKnown(MergedOriginal) /\ PackagesKnown(MergedRetry)) =>
        \A s \in 1..Len(MergedOriginal) :
            \A i \in 1..Len(MergedOriginal[s].benchmark_lines) :
                LET orig == MergedOriginal[s].benchmark_lines[i]
                    out == mSections[s].benchmark_lines[i]
                    same == {pl \in PlacesOf(MergedRetry, orig[1]) :
                                PackagesOf(MergedRetry[pl[1]]) = PackagesOf(MergedOriginal[s])}
                IN IF same = {}
                   THEN out[2] = orig[2]
                   ELSE out[2] # orig[2] =>
                           \E pl \in same :
                               out[2] = MergedRetry[pl[1]].benchmark_lines[pl[2]][2]

\* C40, its case: both reports hold BenchmarkA in packages 1 and 2; after the
\* merge the original's section of package 1 holds the replacement report's
\* line of package 2.
C40_Witness ==
    /\ mResult = "True"
    /\ mAuth = {BenchmarkA}
    /\ files["original_file"] = SectionOf(1, 100) \o SectionOf(2, 100)
    /\ files["retry_file"] = SectionOf(1, 200) \o SectionOf(2, 300)
    /\ files["output_file"] = SectionOf(1, 300) \o SectionOf(2, 300)

Names(section) == [i \in 1..Len(section.benchmark_lines) |-> section.benchmark_lines[i][1]]

\* C2: the merged report has the original's sections in the original's order,
\* each with the original's header lines, footer lines and sequence of
\* benchmark names; the written file is the serialization of exactly that.
C2_MergePreservesStructure ==
    (mpc \in {"merged", "writing"} \/ mResult = "True") =>
        LET original == MergedOriginal
        IN /\ Len(mSections) = Len(original)
           /\ \A s \in 1..Len(original) :
                 /\ mSections[s].header_lines = original[s].header_lines
                 /\ mSections[s].footer_lines = original[s].footer_lines
                 /\ Names(mSections[s]) = Names(original[s])
           /\ mpc = "returned" =>
                 files[mOut] = Flatten([s \in 1..Len(original) |->
                                   original[s].header_lines
                                   \o Flatten([i \in 1..Len(mSections[s].benchmark_lines) |->
                                                  mSections[s].benchmark_lines[i][2]])
                                   \o original[s].footer_lines])

\* C2 witness: original order [A, B, C] with B authorized and replaced: the
\* output order is [A, B(updated), C], header and footer in place.
C2_Witness ==
    /\ mResult = "True"
    /\ mAuth = {BenchmarkB}
    /\ Len(MergedOriginal) = 1
    /\ Names(MergedOriginal[1]) = <<BenchmarkA, BenchmarkB, BenchmarkC>>
    /\ Names(mSections[1]) = <<BenchmarkA, BenchmarkB, BenchmarkC>>
    /\ mSections[1].benchmark_lines[2][2] # MergedOriginal[1].benchmark_lines[2][2]

\* the report the merge is to produce, from the inputs as they are on disk
MergedText == Serialize(MergeSections(MergedOriginal, MergedRetry, mAuth))

\* C12: every step of the merge leaves the destination as it was, except the
\* single rename, which replaces it by the temporary file holding the complete
\* merged report; so the destination never holds a partially written report.
C12_DestinationNeverPartial ==
    [][\/ files'[mOut] = files[mOut]
       \/ /\ files[mOut] = PreMerge(mOut)
          /\ files["temp"] = MergedText
          /\ files'[mOut] = MergedText
          /\ files'["temp"] = NoFile]_vars

\* C12 witness: the temporary file holds a proper, non-empty part of the merged
\* report while the destination still holds the older report.
C12_Witness ==
    /\ mpc = "writing"
    /\ files["temp"] # <<>>
    /\ Len(files["temp"]) < Len(MergedText)
    /\ files[mOut] = StaleReport

\* C13: a merge that returned False (a missing input, or an error while the
\* temporary file was created, written or moved) left the destination with its
\* pre-merge content and no temporary file behind.
C13_FailedMergeLeavesNothing ==
    mResult = "False" =>
        /\ mpc = "returned"
        /\ files[mOut] = PreMerge(mOut)
        /\ files["temp"] = NoFile

\* C13 witness: a merge that returned False although both inputs were parsed
\* and there was a report of several lines to write: the failure came while
\* the temporary file was created, written or moved.
C13_Witness ==
    /\ mResult = "False"
    /\ files["original_file"] # NoFile
    /\ files["retry_file"] # NoFile
    /\ mSections # <<>>
    /\ Len(MergedText) >= 2

\* C14 as stated: a successful merge with an empty authorized set leaves at
\* the destination exactly the text of the original report.
C14_EmptyAuthorizedIsIdentity ==
    (mResult = "True" /\ mAuth = {}) => files[mOut] = files["original_file"]

\* C14 witness: a successful merge with an empty authorized set of an original
\* whose samples of BenchmarkB are separated by one of BenchmarkA: the output
\* holds the two BenchmarkB lines first.
C14_Witness ==
    /\ mResult = "True"
    /\ mAuth = {}
    /\ files["original_file"] = <<BenchLine(BenchmarkB, 100), BenchLine(BenchmarkA, 100),
                                  BenchLine(BenchmarkB, 100)>>
    /\ files[mOut] = <<BenchLine(BenchmarkB, 100), BenchLine(BenchmarkB, 100),
                       BenchLine(BenchmarkA, 100)>>

\* the authorized names the original report holds and the replacement lacks
AuthorizedMissing ==
    {nm \in mAuth : /\ \E s \in 1..Len(MergedOriginal) :
                          \E i \in 1..Len(MergedOriginal[s].benchmark_lines) :
                              MergedOriginal[s].benchmark_lines[i][1] = nm
                    /\ ~InRetry(MergedRetry, nm)}

\* C20: a merge in which an authorized benchmark is absent from the
\* replacement report still returns True and writes the output; the original
\* entry's lines are kept unchanged, exactly one discrepancy is recorded for
\* that benchmark, and the number of recorded discrepancies is the number of
\* authorized-but-missing benchmarks.
C20_MissingRecordedOncePerBenchmark ==
    (mResult = "True" /\ AuthorizedMissing # {}) =>
        LET original == MergedOriginal
        IN /\ files[mOut] = Serialize(mSections)
           /\ \A s \in 1..Len(original) : \A i \in 1..Len(original[s].benchmark_lines) :
                  original[s].benchmark_lines[i][1] \in AuthorizedMissing
                      => mSections[s].benchmark_lines[i] = original[s].benchmark_lines[i]
           /\ \A nm \in AuthorizedMissing :
                  Cardinality({k \in 1..Len(mMissing) : mMissing[k] = nm}) = 1
           /\ Len(mMissing) = Cardinality(AuthorizedMissing)

\* C20, its case: the original report holds BenchmarkA in two sections, the
\* replacement report holds only BenchmarkB, BenchmarkA is authorized; the
\* merge returns True, both entries keep their lines and BenchmarkA is
\* recorded twice.
C20_Witness ==
    /\ mResult = "True"
    /\ files["original_file"] = <<BenchLine(BenchmarkA, 100), GoosLine, BenchLine(BenchmarkA, 100)>>
    /\ files["retry_file"] = <<BenchLine(BenchmarkB, 200)>>
    /\ mAuth = {BenchmarkA}
    /\ AuthorizedMissing = {BenchmarkA}
    /\ files[mOut] = files["original_file"]
    /\ mMissing = <<BenchmarkA, BenchmarkA>>

(***************************************************************************)
(* The filter builder as a one-step machine over bounded name lists.       *)
(***************************************************************************)
MaxNames == 3

FilterNames == {<<"BenchmarkA">>, <<"BenchmarkA", "-16">>, <<"BenchmarkB">>,
                <<"BenchmarkA", "/", "Sub1">>, <<"BenchmarkP", "/", "Sub1">>,
                <<"BenchmarkP", "/", "Sub2", "-16">>, <<"BenchmarkP", "/", "BenchmarkB">>}

InitFilter ==
    /\ fpc = "call"
    /\ fNames \in SeqsUpTo(FilterNames, MaxNames)
    /\ fOut = <<>>
    /\ files = <<>>
    /\ MergeIdle
    /\ SessionIdle
    /\ RoundIdle
    /\ StatsIdle
    /\ ResumeIdle
    /\ DeriveIdle
    /\ ParseFileIdle
    /\ MainIdle
    /\ StreamIdle
    /\ RerunIdle

BuildFilters ==
    /\ fpc = "call"
    /\ fOut' = create_benchmark_filters(fNames)
    /\ fpc' = "returned"
    /\ UNCHANGED <<files, fNames, varsMerge, varsSession,
                   varsRound, varsStats, varsResume,
                   varsDerive, varsParseFile, varsMain, varsStream, varsRerun>>

NextFilter == BuildFilters

SpecFilter == InitFilter /\ [][NextFilter]_vars

(***************************************************************************)
(* Claims about the filter builder (checked under SpecFilter).             *)
(***************************************************************************)
\* reading an expression back: the alternatives of a group, the groups of an
\* expression
RECURSIVE SplitOn(_, _, _)
SplitOn(toks, sep, acc) ==
    IF toks = <<>> THEN {acc}
    ELSE IF Head(toks) = sep THEN {acc} \cup SplitOn(Tail(toks), sep, <<>>)
    ELSE SplitOn(Tail(toks), sep, Append(acc, Head(toks)))

Opens(e) == {i \in 1..Len(e) : e[i] = "^("}
Closes(e) == {i \in 1..Len(e) : e[i] = ")$"}
\* a second group after ")$" "/" : the expression requires a sub-name match
RequiresSub(e) == \E i \in 1..(Len(e) - 2) : e[i] = ")$" /\ e[i + 1] = "/" /\ e[i + 2] = "^("
FirstGroup(e) ==
    LET c == CHOOSE i \in Closes(e) : \A j \in Closes(e) : i <= j
    IN SplitOn(SubSeq(e, 2, c - 1), "|", <<>>)
SecondGroup(e) ==
    LET o == CHOOSE i \in Opens(e) : \A j \in Opens(e) : j <= i
    IN SplitOn(SubSeq(e, o + 1, Len(e) - 1), "|", <<>>)
NamesIn(e) == FirstGroup(e) \cup (IF RequiresSub(e) THEN SecondGroup(e) ELSE {})

GivenBases == {StripCpuSuffix(fNames[i]) : i \in 1..Len(fNames)}
GivenTops == {n \in GivenBases : \A i \in 1..Len(n) : n[i] # "/"}
GivenPairs == GivenBases \ GivenTops
PairParent(n) == SubSeq(n, 1, (CHOOSE i \in 1..Len(n) : n[i] = "/" /\ \A j \in 1..(i - 1) : n[j] # "/") - 1)
PairSub(n) == SubSeq(n, 1 + (CHOOSE i \in 1..Len(n) : n[i] = "/" /\ \A j \in 1..(i - 1) : n[j] # "/"), Len(n))

\* C10 as stated: one expression for an unmixed list, two for a mixed one, the
\* first naming exactly the top-level names, the second exactly the parents and
\* sub-names, and no top-level name in any expression that requires a sub-name.
C10_Original_TopLevelNeverInSubExpression ==
    (fpc = "returned" /\ fNames # <<>>) =>
        /\ Len(fOut) = (IF GivenTops # {} /\ GivenPairs # {} THEN 2 ELSE 1)
        /\ \A i \in 1..Len(fOut) :
              RequiresSub(fOut[i]) => \A t \in GivenTops : t \notin NamesIn(fOut[i])

\* C10 amended: one expression for an unmixed list, two for a mixed one; the
\* expression without a sub-name part names exactly the top-level names, the
\* one with a sub-name part names exactly the parents and the sub-names of the
\* pairs, so a top-level name is in it only if it is also the parent or the
\* sub-name of a pair of the list.
C10_FiltersSplitTopLevelFromPairs ==
    (fpc = "returned" /\ fNames # <<>>) =>
        /\ Len(fOut) = (IF GivenTops # {} /\ GivenPairs # {} THEN 2 ELSE 1)
        /\ GivenTops # {} =>
              /\ ~RequiresSub(fOut[1])
              /\ NamesIn(fOut[1]) = GivenTops
        /\ GivenPairs # {} =>
              /\ RequiresSub(fOut[Len(fOut)])
              /\ FirstGroup(fOut[Len(fOut)]) = {PairParent(n) : n \in GivenPairs}
              /\ SecondGroup(fOut[Len(fOut)]) = {PairSub(n) : n \in GivenPairs}
        /\ \A i \in 1..Len(fOut) : \A t \in GivenTops :
              (RequiresSub(fOut[i]) /\ t \in NamesIn(fOut[i])) =>
                  \E n \in GivenPairs : t \in {PairParent(n), PairSub(n)}

\* C10 witness: a mixed list (a top-level name and a parent/sub-name pair) for
\* which two expressions were returned.
C10_Witness ==
    /\ fpc = "returned"
    /\ GivenTops # {}
    /\ GivenPairs # {}
    /\ fOut = <<<<"^(", "BenchmarkB", ")$">>,
                <<"^(", "BenchmarkP", ")$", "/", "^(", "Sub1", ")$">>>>

\* every parent/sub-name pair over the parents and sub-names of FilterNames
AllPairs ==
    {p \o <<"/">> \o q : p \in {PairParent(n) : n \in {m \in FilterNames : HasSlash(m)}},
                         q \in {PairSub(StripCpuSuffix(n)) : n \in {m \in FilterNames : HasSlash(m)}}}

\* an expression with a sub-name part selects the pair whose parent is an
\* alternative of its first group and whose sub-name is one of its second;
\* an expression without one is taken to select top-level names only
MatchesPair(e, pair) ==
    /\ RequiresSub(e)
    /\ PairParent(pair) \in FirstGroup(e)
    /\ PairSub(pair) \in SecondGroup(e)

\* C11 as stated: the expressions built for a failing set match no
\* parent/sub-name pair outside the failing set.
C11_FiltersSelectOnlyFailing ==
    fpc = "returned" =>
        \A i \in 1..Len(fOut) : \A pair \in AllPairs \ GivenPairs :
            ~MatchesPair(fOut[i], pair)

\* C11 witness: the filters of the failing set {BenchmarkA/Sub1,
\* BenchmarkP/Sub2} were built: one expression, which matches every failing
\* pair and also BenchmarkA/Sub2 and BenchmarkP/Sub1.
C11_Witness ==
    /\ fpc = "returned"
    /\ GivenBases = {<<"BenchmarkA", "/", "Sub1">>, <<"BenchmarkP", "/", "Sub2">>}
    /\ fOut = <<<<"^(", "BenchmarkA", "|", "BenchmarkP", ")$", "/",
                  "^(", "Sub1", "|", "Sub2", ")$">>>>
    /\ \A pair \in GivenPairs : MatchesPair(fOut[1], pair)
    /\ MatchesPair(fOut[1], <<"BenchmarkA", "/", "Sub2">>)
    /\ MatchesPair(fOut[1], <<"BenchmarkP", "/", "Sub1">>)

\* the names of the list with the CPU suffix -16 on every one, on none
WithSuffix(names) ==
    [i \in 1..Len(names) |->
        IF names[i][Len(names[i])] \in CpuSuffixTokens THEN names[i] ELSE Append(names[i], "-16")]
WithoutSuffix(names) ==
    [i \in 1..Len(names) |->
        IF names[i][Len(names[i])] \in CpuSuffixTokens
        THEN SubSeq(names[i], 1, Len(names[i]) - 1) ELSE names[i]]

MaxReruns == 2

Thresholds == {10, 15, 20}

BenchmarkPSub1 == <<"BenchmarkP", "/", "Sub1">>

\* ns/op samples one benchmark can get in one report: none, a single one,
\* CV 0, 12, 15, 20 and 40 percent
ProfilesA == {<<>>, <<20>>, <<20, 20>>, <<22, 25, 28>>, <<17, 20, 23>>,
              <<16, 20, 24>>, <<20, 20, 20, 40>>}
ProfilesP == {<<>>, <<20, 20>>, <<20, 20, 20, 40>>}

ResultLines(name, profile) == [i \in 1..Len(profile) |-> BenchLine(name, profile[i])]

ExecReports ==
    {<<GoosLine>> \o ResultLines(BenchmarkA, a) \o ResultLines(BenchmarkPSub1, b) \o <<FootLine>> :
        a \in ProfilesA, b \in ProfilesP}

\* result['failed_benchmarks'] of a failed run (crashes seen by the streaming runner)
StreamFailedSets == {{}, {BenchmarkA}}

CanonicalReport == 0

NoStats == [n \in {} |-> 0]
NoResult == [success |-> FALSE, output_file |-> CanonicalReport, stats |-> NoStats,
             failed_benchmarks |-> {}, retry_count |-> 0]
NoFailedFile == [exists |-> FALSE, names |-> {}]

InitSession ==
    /\ files = [i \in 0..MaxReruns |-> NoFile]
    /\ pc = "start"
    /\ variance_threshold \in Thresholds
    /\ max_reruns \in 0..MaxReruns
    /\ retry_count = 0
    /\ stats = NoStats
    /\ failed = {}
    /\ bench_filters = <<>>
    /\ result = NoResult
    /\ versionStatus = "pending"
    /\ failurePath = FALSE
    /\ failedFile = NoFailedFile
    /\ mergeCalls = 0
    /\ analyses = <<>>
    /\ execFailedAt = -1
    /\ resolved = NoStats
    /\ MergeIdle
    /\ FilterIdle
    /\ RoundIdle
    /\ StatsIdle
    /\ ResumeIdle
    /\ DeriveIdle
    /\ ParseFileIdle
    /\ MainIdle
    /\ StreamIdle
    /\ RerunIdle

\* main: progress.start_version(version)
StartVersion ==
    /\ pc = "start"
    /\ versionStatus' = "running"
    /\ pc' = "initial"
    /\ UNCHANGED <<files, variance_threshold, max_reruns, retry_count, stats, failed,
                   bench_filters, result, failurePath, failedFile, mergeCalls, analyses,
                   execFailedAt, resolved, varsMerge, varsFilter,
                   varsRound, varsStats, varsResume,
                   varsDerive, varsParseFile, varsMain, varsStream, varsRerun>>

\* faulty variant: the initial run's failure is not checked
AfterInitialRunUnchecked(ok) == "analyze"

\* if not result['success']: return {...}
AfterInitialRun(ok) == IF ok THEN "analyze" ELSE "returned"

\* the initial run_benchmarks call and the early return on its failure
RunInitial ==
    /\ pc = "initial"
    /\ \E out \in ExecReports, ok \in BOOLEAN, crashed \in StreamFailedSets :
          /\ files' = [files EXCEPT ![CanonicalReport] = out]
          /\ pc' = AfterInitialRun(ok)
          /\ IF ok
             THEN UNCHANGED <<result, execFailedAt>>
             ELSE /\ execFailedAt' = 0
                  /\ result' = [success |-> FALSE, output_file |-> CanonicalReport,
                                stats |-> NoStats, failed_benchmarks |-> crashed,
                                retry_count |-> 0]
    /\ UNCHANGED <<variance_threshold, max_reruns, retry_count, stats, failed, bench_filters,
                   versionStatus, failurePath, failedFile, mergeCalls, analyses,
                   resolved, varsMerge, varsFilter,
                   varsRound, varsStats, varsResume,
                   varsDerive, varsParseFile, varsMain, varsStream, varsRerun>>

\* stats, failed = runner.analyze_variance(output_file, variance_threshold)
AnalyzeInitial ==
    /\ pc = "analyze"
    /\ \E a \in {analyze_variance(files[CanonicalReport], variance_threshold)} :
          /\ stats' = a.stats
          /\ failed' = a.failed
          /\ analyses' = Append(analyses, a.failed)
    /\ retry_count' = 0
    /\ pc' = "loop"
    /\ UNCHANGED <<files, variance_threshold, max_reruns, bench_filters, result, versionStatus,
                   failurePath, failedFile, mergeCalls, execFailedAt, resolved,
                   varsMerge, varsFilter,
                   varsRound, varsStats, varsResume,
                   varsDerive, varsParseFile, varsMain, varsStream, varsRerun>>

\* faulty variant: the loop ignores the retry budget
LoopContinuesNoBudget == failed # {}

\* faulty variant: the loop ignores the failing set
LoopContinuesNoFailed == retry_count < max_reruns

\* while failed and retry_count < max_reruns
LoopContinues == failed # {} /\ retry_count < max_reruns

\* faulty variant: a retry writes its report over the initial one
rerun_file_canonical(n) == CanonicalReport

\* rerun_file = output_dir / f"{timestamp}_retry{retry_count}.txt"
rerun_file(n) == n

\* one pass of the loop up to the check of the retry's result
RunRetry ==
    /\ pc = "loop"
    /\ LoopContinues
    /\ retry_count' = retry_count + 1
    /\ \E benchmark_names \in {Sorted(failed)} :
          bench_filters' = create_benchmark_filters(benchmark_names)
    /\ \E out \in ExecReports, ok \in BOOLEAN :
          /\ files' = [files EXCEPT ![rerun_file(retry_count + 1)] = out]
          /\ IF ok
             THEN /\ pc' = "retry_analyze"
                  /\ UNCHANGED execFailedAt
             ELSE /\ pc' = "finish"
                  /\ execFailedAt' = retry_count + 1
    /\ UNCHANGED <<variance_threshold, max_reruns, stats, failed, result, versionStatus,
                   failurePath, failedFile, mergeCalls, analyses, resolved,
                   varsMerge, varsFilter,
                   varsRound, varsStats, varsResume,
                   varsDerive, varsParseFile, varsMain, varsStream, varsRerun>>

\* the names a retry analysis resolves: failing before, with statistics in the
\* retry report and not failing there; each with its lines of the retry report
ResolvedBy(before, a, text) ==
    LET names == {n \in before : n \in DOMAIN a.stats /\ n \notin a.failed}
    IN [n \in names |-> SelectSeq(text, LAMBDA l : l.k = "bench" /\ l.n = n)]

Override(f, g) == [x \in DOMAIN f \cup DOMAIN g |-> IF x \in DOMAIN g THEN g[x] ELSE f[x]]

\* faulty variant: the retry's failing set is added to the previous one
NextFailedAccumulate(before, retry_failed) == before \cup retry_failed

\* failed = retry_failed
NextFailed(before, retry_failed) == retry_failed

\* the rest of the pass: the retry's analysis and failed = retry_failed
AnalyzeRetry ==
    /\ pc = "retry_analyze"
    /\ \E a \in {analyze_variance(files[rerun_file(retry_count)], variance_threshold)} :
          /\ failed' = NextFailed(failed, a.failed)
          /\ analyses' = Append(analyses, a.failed)
          /\ resolved' = Override(resolved,
                                  ResolvedBy(failed, a, files[rerun_file(retry_count)]))
    /\ pc' = "loop"
    /\ UNCHANGED <<files, variance_threshold, max_reruns, retry_count, stats, bench_filters,
                   result, versionStatus, failurePath, failedFile, mergeCalls, execFailedAt,
                   varsMerge, varsFilter,
                   varsRound, varsStats, varsResume,
                   varsDerive, varsParseFile, varsMain, varsStream, varsRerun>>

\* faulty variant: a failed retry empties the failing set
ReturnedFailedClearedOnAbort == IF pc = "finish" THEN {} ELSE failed

\* failed_benchmarks of the returned dict
ReturnedFailed == failed

\* success = len(failed) == 0
SessionSuccess == ReturnedFailed = {}

\* the end of the loop (by its condition or by break) and the return
Return ==
    /\ \/ pc = "finish"
       \/ pc = "loop" /\ ~LoopContinues
    /\ result' = [success |-> SessionSuccess, output_file |-> CanonicalReport,
                  stats |-> stats, failed_benchmarks |-> ReturnedFailed,
                  retry_count |-> retry_count]
    /\ pc' = "returned"
    /\ UNCHANGED <<files, variance_threshold, max_reruns, retry_count, stats, failed,
                   bench_filters, versionStatus, failurePath, failedFile, mergeCalls,
                   analyses, execFailedAt, resolved, varsMerge, varsFilter,
                   varsRound, varsStats, varsResume,
                   varsDerive, varsParseFile, varsMain, varsStream, varsRerun>>

\* main after the session: the "collection failed" branch or the final report,
\* then progress.complete_version
MainHandle ==
    /\ pc = "returned"
    /\ IF ~result.success
       THEN /\ failurePath' = TRUE
            /\ failedFile' = IF result.failed_benchmarks # {}
                             THEN [exists |-> TRUE, names |-> result.failed_benchmarks]
                             ELSE failedFile
            /\ versionStatus' = "failed"
       ELSE /\ versionStatus' = "complete"
            /\ UNCHANGED <<failurePath, failedFile>>
    /\ pc' = "version_done"
    /\ UNCHANGED <<files, variance_threshold, max_reruns, retry_count, stats, failed,
                   bench_filters, result, mergeCalls, analyses, execFailedAt, resolved,
                   varsMerge, varsFilter,
                   varsRound, varsStats, varsResume,
                   varsDerive, varsParseFile, varsMain, varsStream, varsRerun>>

Next ==
    \/ StartVersion
    \/ RunInitial
    \/ AnalyzeInitial
    \/ RunRetry
    \/ AnalyzeRetry
    \/ Return
    \/ MainHandle

Init == InitSession

Spec == Init /\ [][Next]_vars

\* every executor invocation and every step of the single thread of control
\* returns: no step that is enabled is postponed forever
FairSpec == Spec /\ WF_vars(Next)

(***************************************************************************)
(* Claims about the collection session (checked under Spec and FairSpec).  *)
(***************************************************************************)
Returned == pc \in {"returned", "version_done"}
RetryReports == {n \in 1..MaxReruns : files[n] # NoFile}

\* the ns/op samples of a name in a report, read off the result lines
SamplesIn(text, nm) ==
    LET own == SelectSeq(text, LAMBDA l : l.k = "bench" /\ l.n = nm)
    IN [i \in 1..Len(own) |-> own[i].v]
NamesInReport(text) == {text[i].n : i \in {j \in 1..Len(text) : text[j].k = "bench"}}
WithStatistics(text) == {nm \in NamesInReport(text) : Len(SamplesIn(text, nm)) >= 2}

JustAnalyzed == pc = "loop" /\ retry_count = 0 /\ Len(analyses) = 1

\* C3 as stated: after the initial analysis the failing set is exactly the
\* benchmarks with statistics for which passes is false (CV not below 15%),
\* and the session ends successful without a retry iff that set is empty.
C3_Original_FailingIsNotPassed ==
    /\ JustAnalyzed =>
          /\ DOMAIN stats = WithStatistics(files[CanonicalReport])
          /\ failed = {nm \in DOMAIN stats : ~passed(stats[nm])}
    /\ (Returned /\ Len(analyses) >= 1) =>
          ((result.success /\ result.retry_count = 0) <=> analyses[1] = {})

\* C3 amended: after the initial analysis the failing set is exactly the
\* benchmarks with statistics (at least 2 samples) for which passes is false
\* (CV not below 15%) and whose CV is strictly greater than the configured
\* threshold; every other benchmark with statistics is outside it; the session
\* ends successful without a retry iff that set is empty.
C3_FailingIsNotPassedAboveThreshold ==
    /\ JustAnalyzed =>
          /\ DOMAIN stats = WithStatistics(files[CanonicalReport])
          /\ \A nm \in DOMAIN stats :
                /\ stats[nm].count = Len(SamplesIn(files[CanonicalReport], nm))
                /\ stats[nm].sum = SumSeq(SamplesIn(files[CanonicalReport], nm))
                /\ nm \in failed <=>
                      (~passed(stats[nm]) /\ CvAbove(stats[nm], variance_threshold))
          /\ failed \subseteq DOMAIN stats
    /\ (Returned /\ Len(analyses) >= 1) =>
          ((result.success /\ result.retry_count = 0) <=> analyses[1] = {})

\* C3 witness: an initial analysis that fails one benchmark (CV 40%) and lets
\* through another that has statistics and does not pass (CV 15% or 20%).
C3_Witness ==
    /\ JustAnalyzed
    /\ failed = {BenchmarkPSub1}
    /\ BenchmarkA \in DOMAIN stats
    /\ ~passed(stats[BenchmarkA])

\* C22: the configured threshold T is the maximum acceptable CV: after the
\* analysis of the initial report, for every T, every benchmark with
\* statistics whose CV is greater than T is in the failing set and every
\* benchmark whose CV is at most T is not.
C22_FailingIsAboveThreshold ==
    JustAnalyzed =>
        \A nm \in DOMAIN stats : nm \in failed <=> CvAbove(stats[nm], variance_threshold)

\* C22, its case: threshold 10 and a benchmark whose samples 22, 25, 28 have
\* a CV of 12: above the threshold, below 15, and not in the failing set.
C22_Witness ==
    /\ JustAnalyzed
    /\ variance_threshold = 10
    /\ SamplesIn(files[CanonicalReport], BenchmarkA) = <<22, 25, 28>>
    /\ CvAbove(stats[BenchmarkA], variance_threshold)
    /\ passed(stats[BenchmarkA])
    /\ BenchmarkA \notin failed

\* C4: retry_count never exceeds max_reruns, at most max_reruns retry reports
\* are ever produced (none when max_reruns = 0), and the session returns its
\* result and main finishes the version.
C4_RetriesBoundedAndSessionEnds ==
    /\ [](retry_count <= max_reruns /\ Cardinality(RetryReports) <= max_reruns)
    /\ <>(pc = "version_done" /\ result.retry_count <= max_reruns)

\* C4 witness: a session that used its whole budget of two retries and returned.
C4_Witness ==
    /\ pc = "returned"
    /\ max_reruns = MaxReruns
    /\ result.retry_count = max_reruns
    /\ Cardinality(RetryReports) = max_reruns

\* C5: while no executor invocation has failed, every retry was started on a
\* non-empty failing set and within the budget, every analysis but the last
\* found something failing, and a returned session stopped on an empty failing
\* set or an exhausted budget and reports the failing set of its last analysis.
C5_LoopStopsOnEmptyOrBudget ==
    execFailedAt = -1 =>
        /\ \A i \in 1..(Len(analyses) - 1) : analyses[i] # {}
        /\ \A n \in RetryReports : n <= Len(analyses) /\ analyses[n] # {} /\ n <= max_reruns
        /\ (Returned /\ analyses # <<>>) =>
              /\ Len(analyses) = result.retry_count + 1
              /\ RetryReports = 1..result.retry_count
              /\ result.failed_benchmarks = analyses[Len(analyses)]
              /\ (result.failed_benchmarks = {} \/ result.retry_count = max_reruns)
              /\ (result.retry_count < max_reruns => analyses[Len(analyses)] = {})

\* C5 witness: a session with budget left that stopped after its first retry
\* because that retry's analysis found nothing failing.
C5_Witness ==
    /\ pc = "returned"
    /\ execFailedAt = -1
    /\ max_reruns = 2
    /\ result.retry_count = 1
    /\ Len(analyses) = 2
    /\ analyses[1] # {}
    /\ result.failed_benchmarks = {}

\* C6: when the initial executor run fails the session returns at once: no
\* analysis, no retry, empty stats, success false.
C6_InitialFailureReturnsAtOnce ==
    execFailedAt = 0 =>
        /\ Returned
        /\ analyses = <<>>
        /\ stats = NoStats
        /\ retry_count = 0
        /\ RetryReports = {}
        /\ result.retry_count = 0
        /\ result.stats = NoStats
        /\ result.success = FALSE

\* C6 witness: a returned session whose initial run failed although its report
\* holds a high-variance benchmark.
C6_Witness ==
    /\ pc = "returned"
    /\ execFailedAt = 0
    /\ analyze_variance(files[CanonicalReport], variance_threshold).failed # {}
    /\ max_reruns > 0

\* C7: when the executor fails in retry n the loop is left: no later retry, no
\* analysis of retry n's report, the failing set is the one found before retry
\* n, and the session returns it with the canonical report as output file.
C7_RetryFailureAbandonsLoop ==
    execFailedAt >= 1 =>
        /\ pc \in {"finish", "returned", "version_done"}
        /\ retry_count = execFailedAt
        /\ RetryReports = 1..execFailedAt
        /\ Len(analyses) = execFailedAt
        /\ failed = analyses[execFailedAt]
        /\ Returned =>
              /\ result.failed_benchmarks = analyses[execFailedAt]
              /\ result.failed_benchmarks # {}
              /\ result.retry_count = execFailedAt
              /\ result.output_file = CanonicalReport

\* C7 witness: a returned session whose first retry failed with budget left
\* over, leaving a retry report that would have analysed clean.
C7_Witness ==
    /\ pc = "returned"
    /\ execFailedAt = 1
    /\ max_reruns = 2
    /\ analyze_variance(files[1], variance_threshold).failed = {}
    /\ result.failed_benchmarks # {}

\* C8: a version whose executor invocations all succeeded and that ends with
\* unresolved benchmarks is not sent through main's collection-failed branch
\* and is not marked failed in the progress state.
C8_VarianceResidueNotFatal ==
    (pc = "version_done" /\ execFailedAt = -1 /\ result.failed_benchmarks # {}) =>
        (~failurePath /\ versionStatus # "failed")

\* C8: the state the claim is about is reached.
C8_Witness ==
    /\ pc = "version_done"
    /\ execFailedAt = -1
    /\ result.failed_benchmarks # {}
    /\ result.retry_count = max_reruns

\* C9: when a retry made a failing benchmark pass, the session has called the
\* merge engine and the canonical report holds that benchmark's retry lines.
C9_ResolvedRetriesAreMerged ==
    Returned =>
        \A nm \in DOMAIN resolved :
            nm \notin result.failed_benchmarks =>
                /\ mergeCalls >= 1
                /\ SelectSeq(files[CanonicalReport], LAMBDA l : l.k = "bench" /\ l.n = nm)
                      = resolved[nm]

\* C9: the state the claim is about is reached: a benchmark failing in the
\* initial report passed in a retry and the session returned success.
C9_Witness ==
    /\ pc = "returned"
    /\ result.success
    /\ BenchmarkA \in DOMAIN resolved
    /\ BenchmarkA \in analyses[1]

\* C35: retries never chain and never write to the canonical report: the
\* run of retry n changes the file <timestamp>_retry<n>.txt and no other
\* file, no step after the initial run changes the initial report, the
\* session calls no merge, and the output file it reports is the canonical
\* initial report.
C35_RetriesWriteOnlyTheirOwnReport ==
    [][/\ (pc = "loop" /\ pc' \in {"retry_analyze", "finish"}) =>
             \A path \in DOMAIN files :
                 path # retry_count' => files'[path] = files[path]
       /\ pc # "initial" => files'[CanonicalReport] = files[CanonicalReport]
       /\ pc' = "returned" =>
             /\ result'.output_file = CanonicalReport
             /\ mergeCalls' = 0]_vars

\* C35, its case: two retries ran, each left its own report, different from
\* the initial one, and the session returned the canonical report.
C35_Witness ==
    /\ pc = "returned"
    /\ result.retry_count = 2
    /\ result.output_file = CanonicalReport
    /\ files[1] # NoFile
    /\ files[2] # NoFile
    /\ files[1] # files[CanonicalReport]
    /\ files[2] # files[1]

\* C36: a benchmark leaves the failing set at a retry's analysis only if the
\* retry's report holds at least 2 samples of it with a CV that does not
\* exceed the threshold; a retry that did not measure it never resolves it.
C36_ResolvedOnlyByStableRetry ==
    [][(pc = "retry_analyze" /\ pc' = "loop") =>
           \A nm \in failed \ failed' :
               LET text == files[rerun_file(retry_count)]
                   retry_stats == calculate_stats(parse_file(text))
               IN /\ Len(SamplesIn(text, nm)) >= 2
                  /\ nm \in DOMAIN retry_stats
                  /\ ~CvAbove(retry_stats[nm], variance_threshold)]_vars

\* C36, its case: BenchmarkA failed the initial analysis, the retry's report
\* holds a single sample of it, the failing set is empty after the retry and
\* the session has returned success.
C36_Witness ==
    /\ pc = "returned"
    /\ result.success
    /\ result.retry_count = 1
    /\ analyses = <<{BenchmarkA}, {}>>
    /\ SamplesIn(files[1], BenchmarkA) = <<20>>

(***************************************************************************)
(* The parser and the write loop in turn: a report text is parsed, the     *)
(* unmodified sections are written out by the write loop of                *)
(* merge_benchmark_results, and the text written is parsed again.          *)
(***************************************************************************)
MaxParseLines == 4

\* one line of every kind the parser's tests tell apart
ParseAlphabet == {GoosLine, HdrLine, BenchLine(BenchmarkA, 100), BenchLine(BenchmarkB, 100),
                  BenchNoteLine(BenchmarkA), BenchRawLine, FootLine, OtherLine}

InitParse ==
    /\ rpc = "start"
    /\ rText \in SeqsUpTo(ParseAlphabet, MaxParseLines)
    /\ rSections = <<>>
    /\ rOut = <<>>
    /\ rAgain = <<>>
    /\ files = <<>>
    /\ MergeIdle
    /\ FilterIdle
    /\ SessionIdle
    /\ StatsIdle
    /\ ResumeIdle
    /\ DeriveIdle
    /\ ParseFileIdle
    /\ MainIdle
    /\ StreamIdle
    /\ RerunIdle

\* parse_benchmark_file(filepath)
RoundParse ==
    /\ rpc = "start"
    /\ rSections' = parse_benchmark_file(rText)
    /\ rpc' = "parsed"
    /\ UNCHANGED <<files, rText, rOut, rAgain, varsMerge, varsFilter, varsSession, varsStats, varsResume,
                   varsDerive, varsParseFile, varsMain, varsStream, varsRerun>>

\* the write loop over the sections
RoundSerialize ==
    /\ rpc = "parsed"
    /\ rOut' = Serialize(rSections)
    /\ rpc' = "written"
    /\ UNCHANGED <<files, rText, rSections, rAgain, varsMerge, varsFilter, varsSession, varsStats, varsResume,
                   varsDerive, varsParseFile, varsMain, varsStream, varsRerun>>

\* parse_benchmark_file on what was written
RoundReparse ==
    /\ rpc = "written"
    /\ rAgain' = parse_benchmark_file(rOut)
    /\ rpc' = "done"
    /\ UNCHANGED <<files, rText, rSections, rOut, varsMerge, varsFilter, varsSession, varsStats, varsResume,
                   varsDerive, varsParseFile, varsMain, varsStream, varsRerun>>

NextParse ==
    \/ RoundParse
    \/ RoundSerialize
    \/ RoundReparse

SpecParse == InitParse /\ [][NextParse]_vars

(***************************************************************************)
(* Claims about the round trip (checked under SpecParse).                  *)
(***************************************************************************)
\* C15: for every report text, parsing it, writing the unmodified sections
\* (headers, then each entry's lines, then footers, per section) and parsing
\* what was written gives the same sequence of sections: the same header
\* lines, the same (name, lines) entries in the same order, the same footer
\* lines.
C15_RoundTripKeepsSections ==
    rpc = "done" => rAgain = rSections

\* C15, its case: "goos:", a "Benchmark..." line without -N, "PASS".  The
\* line without -N opens the benchmarks part without adding an entry, so the
\* section holds a footer and no entry; written out, "PASS" follows the
\* header directly and the second parse does not take it as a footer.
C15_Witness ==
    /\ rpc = "done"
    /\ rText = <<GoosLine, BenchRawLine, FootLine>>
    /\ rSections = <<PackageSection(<<GoosLine>>, <<>>, <<FootLine>>)>>
    /\ rOut = <<GoosLine, FootLine>>
    /\ rAgain = <<PackageSection(<<GoosLine>>, <<>>, <<>>)>>

\* the text cut before every "goos:" line: first the lines before the first
\* "goos:" line (possibly none), then one piece per "goos:" line
RECURSIVE SplitAtGoos(_)
SplitAtGoos(text) ==
    IF text = <<>> THEN <<<<>>>>
    ELSE LET init == SplitAtGoos(SubSeq(text, 1, Len(text) - 1))
             line == text[Len(text)]
         IN IF line.k = "goos"
            THEN Append(init, <<line>>)
            ELSE [init EXCEPT ![Len(init)] = Append(@, line)]

HasBenchmarkLine(piece) == \E i \in 1..Len(piece) : StartsWithBenchmark(piece[i])

\* the pieces that make a section: those of a "goos:" line, and the lines
\* before the first one when a line starting with "Benchmark" is among them
SectionPieces(text) ==
    SelectSeq(SplitAtGoos(text),
              LAMBDA piece : piece # <<>> /\ (piece[1].k = "goos" \/ HasBenchmarkLine(piece)))

GoosCount(text) == Cardinality({i \in 1..Len(text) : text[i].k = "goos"})

\* C24: every "goos:" line closes the section in progress and opens a new one
\* whose first header line is that line: a report in which no line starting
\* with "Benchmark" precedes the first "goos:" line parses into as many
\* sections as it has "goos:" lines, in file order (section k is what the
\* lines from the k-th "goos:" line up to the next one parse to); empty
\* input parses into no section.
C24_GoosLineOpensSection ==
    rpc # "start" =>
        /\ rText = <<>> => rSections = <<>>
        /\ ~HasBenchmarkLine(SplitAtGoos(rText)[1]) =>
              /\ Len(rSections) = GoosCount(rText)
              /\ \A k \in 1..Len(rSections) :
                    /\ rSections[k].header_lines # <<>>
                    /\ rSections[k].header_lines[1] = GoosLine
                    /\ <<rSections[k]>> = parse_benchmark_file(SplitAtGoos(rText)[k + 1])

\* C24, its case: two "goos:" lines, the first followed by a result line and
\* "PASS", give two sections, the second with its header only.
C24_Witness ==
    /\ rpc = "parsed"
    /\ rText = <<GoosLine, BenchLine(BenchmarkA, 100), FootLine, GoosLine>>
    /\ rSections = <<PackageSection(<<GoosLine>>,
                                    <<<<BenchmarkA, <<BenchLine(BenchmarkA, 100)>>>>>>,
                                    <<FootLine>>),
                     PackageSection(<<GoosLine>>, <<>>, <<>>)>>

\* the first footer marker of the piece that follows a line starting with
\* "Benchmark", or 0
ClosingFooter(piece) ==
    LET marks == {i \in 1..Len(piece) :
                     piece[i].k = "foot" /\ HasBenchmarkLine(SubSeq(piece, 1, i - 1))}
    IN IF marks = {} THEN 0 ELSE CHOOSE i \in marks : \A j \in marks : i <= j

EntryLines(section) ==
    Flatten([i \in 1..Len(section.benchmark_lines) |-> section.benchmark_lines[i][2]])

\* C25: within a section a footer marker (PASS, FAIL, ok) is recorded as
\* footer only once a benchmark block has been seen, and it closes the
\* section out: every later line up to the next "goos:" line is recorded in
\* the footer, and no further benchmark entry or line is added to the section.
C25_FooterClosesSection ==
    rpc # "start" =>
        /\ Len(rSections) = Len(SectionPieces(rText))
        /\ \A k \in 1..Len(rSections) :
              LET piece == SectionPieces(rText)[k]
                  mark == ClosingFooter(piece)
              IN IF mark = 0
                 THEN rSections[k].footer_lines = <<>>
                 ELSE /\ rSections[k].footer_lines = SubSeq(piece, mark, Len(piece))
                      /\ Len(EntryLines(rSections[k]))
                            = Len(SelectSeq(SubSeq(piece, 1, mark - 1), NameMatch))

\* C25, its case: "goos:", a result line of BenchmarkA, "PASS", a result line
\* of BenchmarkB.  The line after "PASS" is not recorded in the footer: it
\* opens an entry for BenchmarkB in the section the footer had closed.
C25_Witness ==
    /\ rpc = "parsed"
    /\ rText = <<GoosLine, BenchLine(BenchmarkA, 100), FootLine, BenchLine(BenchmarkB, 100)>>
    /\ rSections = <<PackageSection(<<GoosLine>>,
                                    <<<<BenchmarkA, <<BenchLine(BenchmarkA, 100)>>>>,
                                      <<BenchmarkB, <<BenchLine(BenchmarkB, 100)>>>>>>,
                                    <<FootLine>>)>>

\* the place of the first line of the piece that carries the name
FirstSeen(piece, name) ==
    CHOOSE i \in 1..Len(piece) :
        /\ NameMatch(piece[i]) /\ piece[i].n = name
        /\ \A j \in 1..(i - 1) : ~(NameMatch(piece[j]) /\ piece[j].n = name)

\* C26: in every parsed section the entries form an ordered mapping: each
\* name occurs in at most one entry, the entries are ordered by the first
\* appearance of their name in the section, and each entry's lines are the
\* section's lines that carry that name ("<name>-N ..."), in file order.
C26_EntriesAreOrderedMapping ==
    rpc # "start" =>
        /\ Len(rSections) = Len(SectionPieces(rText))
        /\ \A k \in 1..Len(rSections) :
              LET piece == SectionPieces(rText)[k]
                  b == rSections[k].benchmark_lines
              IN /\ {b[i][1] : i \in 1..Len(b)}
                        = {piece[i].n : i \in {j \in 1..Len(piece) : NameMatch(piece[j])}}
                 /\ \A i, j \in 1..Len(b) : i # j => b[i][1] # b[j][1]
                 /\ \A i, j \in 1..Len(b) :
                        i < j => FirstSeen(piece, b[i][1]) < FirstSeen(piece, b[j][1])
                 /\ \A i \in 1..Len(b) :
                        b[i][2] = SelectSeq(piece, LAMBDA l : NameMatch(l) /\ l.n = b[i][1])

\* C26, its case: lines of BenchmarkB, BenchmarkA, BenchmarkB and BenchmarkA
\* again give the entries BenchmarkB and BenchmarkA, in that order, each with
\* its two lines in file order.
C26_Witness ==
    /\ rpc = "parsed"
    /\ rText = <<BenchLine(BenchmarkB, 100), BenchLine(BenchmarkA, 100),
                 BenchLine(BenchmarkB, 100), BenchNoteLine(BenchmarkA)>>
    /\ rSections = <<PackageSection(<<>>,
                        <<<<BenchmarkB, <<BenchLine(BenchmarkB, 100), BenchLine(BenchmarkB, 100)>>>>,
                          <<BenchmarkA, <<BenchLine(BenchmarkA, 100), BenchNoteLine(BenchmarkA)>>>>>>,
                        <<>>)>>

(***************************************************************************)
(* calculate_stats as a one-step machine: it is called with a result list  *)
(* holding the samples of two benchmarks and returns the statistics.       *)
(* ns/op values are whole numbers; mean is sum / count, stdev^2 is         *)
(* Spread / (count * (count - 1)), and cv is compared by its square.       *)
(***************************************************************************)
MaxSamples == 3

SampleValues == {0, 10, 12, 13}

\* sample groups with cv 0, in each band, on the thresholds 5, 15 and 30, of a
\* zero mean, of a single sample, and the group 100, 100, 100, 200
FixedGroups == {<<10, 10>>, <<12, 13>>, <<10, 12>>, <<10, 13>>, <<10, 20>>,
                <<0, 0>>, <<10>>, <<57, 60, 63>>, <<17, 20, 23>>, <<7, 10, 13>>,
                <<100, 100, 100, 200>>}

\* the BenchmarkResult list of one benchmark's samples
ResultsOf(name, values) ==
    [i \in 1..Len(values) |-> [name |-> name, ns_per_op |-> values[i]]]

InitStats ==
    /\ spc = "start"
    /\ \E a \in SeqsUpTo(SampleValues, MaxSamples), b \in FixedGroups :
          \/ sResults = ResultsOf(BenchmarkA, a) \o ResultsOf(BenchmarkB, b)
          \/ sResults = ResultsOf(BenchmarkB, b) \o ResultsOf(BenchmarkA, a)
    /\ sStats = <<>>
    /\ files = <<>>
    /\ MergeIdle
    /\ FilterIdle
    /\ SessionIdle
    /\ RoundIdle
    /\ ResumeIdle
    /\ DeriveIdle
    /\ ParseFileIdle
    /\ MainIdle
    /\ StreamIdle
    /\ RerunIdle

\* parser.calculate_stats(results)
CalculateStats ==
    /\ spc = "start"
    /\ sStats' = calculate_stats(sResults)
    /\ spc' = "returned"
    /\ UNCHANGED <<files, sResults, varsMerge, varsFilter, varsSession, varsRound, varsResume,
                   varsDerive, varsParseFile, varsMain, varsStream, varsRerun>>

NextStats == CalculateStats

SpecStats == InitStats /\ [][NextStats]_vars

(***************************************************************************)
(* Claims about the statistics (checked under SpecStats).                  *)
(***************************************************************************)
RECURSIVE GCD(_, _)
GCD(a, b) == IF b = 0 THEN a ELSE GCD(b, a % b)

\* cv^2 / 10000 as a fraction in lowest terms: count * Spread over
\* (count - 1) * sum^2, and 0 when the mean is 0
CvSquare(st) ==
    IF st.sum > 0
    THEN LET num == st.count * Spread(st)
             den == (st.count - 1) * st.sum * st.sum
             g == GCD(num, den)
         IN <<num \div g, den \div g>>
    ELSE <<0, 1>>

\* cv of s is at most cv of t
CvLeq(s, t) == CvSquare(s)[1] * CvSquare(t)[2] <= CvSquare(t)[1] * CvSquare(s)[2]

CategoryRank(c) ==
    CASE c = "good" -> 1
      [] c = "acceptable" -> 2
      [] c = "warning" -> 3
      [] c = "high" -> 4
      [] c = "very_high" -> 5

\* the samples of the input that carry the name
SamplesNamed(name) == {i \in 1..Len(sResults) : sResults[i].name = name}

\* C16: the category and the passed flag are functions of CV alone: good for
\* CV < 5, acceptable for 5 <= CV < 10, warning for 10 <= CV < 15, high for
\* 15 <= CV < 30, very_high for CV >= 30; a benchmark whose CV is at most
\* another's never has the higher category; passed holds iff CV < 15 iff the
\* category is good, acceptable or warning.
C16_CategoryFollowsCv ==
    spc = "returned" =>
        /\ \A n \in DOMAIN sStats :
              LET st == sStats[n]
              IN /\ (category(st) = "good") <=> CvBelow(st, 5)
                 /\ (category(st) = "acceptable") <=> (~CvBelow(st, 5) /\ CvBelow(st, 10))
                 /\ (category(st) = "warning") <=> (~CvBelow(st, 10) /\ CvBelow(st, 15))
                 /\ (category(st) = "high") <=> (~CvBelow(st, 15) /\ CvBelow(st, 30))
                 /\ (category(st) = "very_high") <=> ~CvBelow(st, 30)
                 /\ passed(st) <=> CvBelow(st, 15)
                 /\ passed(st) <=> (category(st) \in {"good", "acceptable", "warning"})
        /\ \A n, m \in DOMAIN sStats :
              CvLeq(sStats[n], sStats[m])
                  => CategoryRank(category(sStats[n])) <= CategoryRank(category(sStats[m]))

\* C16, its case: two benchmarks of different sample counts and values, one
\* with a CV between 10 and 15 (10, 12), one with a CV of exactly 15
\* (17, 20, 23): the first is a warning and passes, the second is high and
\* does not pass.
C16_Witness ==
    /\ spc = "returned"
    /\ DOMAIN sStats = {BenchmarkA, BenchmarkB}
    /\ ValuesOf(sResults, BenchmarkA) = <<10, 12>>
    /\ ValuesOf(sResults, BenchmarkB) = <<17, 20, 23>>
    /\ category(sStats[BenchmarkA]) = "warning" /\ passed(sStats[BenchmarkA])
    /\ category(sStats[BenchmarkB]) = "high" /\ ~passed(sStats[BenchmarkB])
    /\ CvSquare(sStats[BenchmarkB]) = <<9, 400>>
    /\ CvLeq(sStats[BenchmarkA], sStats[BenchmarkB])

\* C17: calculate_stats returns statistics for exactly the names that have at
\* least 2 samples in the input; a name with a single sample is left out
\* without an error; for every returned name the count is the number of
\* input samples carrying that name.
C17_StatsNeedTwoSamples ==
    spc = "returned" =>
        /\ DOMAIN sStats = {sResults[i].name : i \in {j \in 1..Len(sResults) :
                                Cardinality(SamplesNamed(sResults[j].name)) >= 2}}
        /\ \A n \in DOMAIN sStats : sStats[n].count = Cardinality(SamplesNamed(n))

\* C17, its case: the input holds one sample of BenchmarkA and three of
\* BenchmarkB; only BenchmarkB is returned, with count 3.
C17_Witness ==
    /\ spc = "returned"
    /\ Cardinality(SamplesNamed(BenchmarkA)) = 1
    /\ Cardinality(SamplesNamed(BenchmarkB)) = 3
    /\ DOMAIN sStats = {BenchmarkB}
    /\ sStats[BenchmarkB].count = 3

\* C18: for every group of at least 2 samples the CV is at least 0, and when
\* the mean of the group is 0 the CV is 0, so the benchmark is good and
\* passes.
C18_CvNonNegativeZeroMean ==
    spc = "returned" =>
        \A n \in DOMAIN sStats :
            /\ ~CvBelow(sStats[n], 0)
            /\ (sStats[n].sum = 0) =>
                   /\ ~CvAbove(sStats[n], 0)
                   /\ category(sStats[n]) = "good"
                   /\ passed(sStats[n])

\* C18, its case: a benchmark whose samples are 0 and 0 has statistics, its
\* mean is 0 and it is good and passes.
C18_Witness ==
    /\ spc = "returned"
    /\ ValuesOf(sResults, BenchmarkB) = <<0, 0>>
    /\ BenchmarkB \in DOMAIN sStats
    /\ sStats[BenchmarkB].sum = 0
    /\ category(sStats[BenchmarkB]) = "good"
    /\ passed(sStats[BenchmarkB])

\* C19: the standard deviation is the sample one (divisor n - 1): the samples
\* 100, 100, 100, 200 of one benchmark give mean 125 (sum 500 over 4),
\* stddev 50 (stddev^2 * 4 * 3 = 30000), CV 40 (neither below nor above),
\* category very_high and passed false.
C19_SampleStdDevExample ==
    (spc = "returned" /\ ValuesOf(sResults, BenchmarkB) = <<100, 100, 100, 200>>) =>
        LET st == sStats[BenchmarkB]
        IN /\ st.count = 4
           /\ st.sum = 125 * st.count
           /\ Spread(st) = 50 * 50 * st.count * (st.count - 1)
           /\ ~CvBelow(st, 40) /\ ~CvAbove(st, 40)
           /\ CvBelow(st, 41)
           /\ category(st) = "very_high"
           /\ ~passed(st)

\* C19, its case: the statistics of the samples 100, 100, 100, 200 are
\* returned.
C19_Witness ==
    /\ spc = "returned"
    /\ ValuesOf(sResults, BenchmarkB) = <<100, 100, 100, 200>>
    /\ BenchmarkB \in DOMAIN sStats
    /\ sStats[BenchmarkB].sum = 500
    /\ Spread(sStats[BenchmarkB]) = 30000
    /\ category(sStats[BenchmarkB]) = "very_high"

(***************************************************************************)
(* main, resume mode, from "if successful:": the original report is copied *)
(* to <name>.txt.backup, merge_benchmark_results is called with the        *)
(* original report as both original_file and output_file, and the backup   *)
(* is copied back when the merge returns False.  The replacement report is *)
(* the session's output file; successful holds names with statistics in    *)
(* it.                                                                     *)
(***************************************************************************)
ResumePaths == {"original_file", "retry_file", "backup_file", "temp"}

\* the names result['stats'] can hold for the report: those with statistics
StatsNames(text) == DOMAIN calculate_stats(parse_file(text))

InitResume ==
    /\ \E o \in SeqsUpTo(OrigAlphabet, MaxOrigLines),
          r \in {t \in SeqsUpTo(RetryAlphabet, MaxRetryLines) : StatsNames(t) # {}} :
          /\ files = [p \in ResumePaths |->
                         IF p = "original_file" THEN o
                         ELSE IF p = "retry_file" THEN r
                         ELSE NoFile]
          /\ mAuth \in (SUBSET StatsNames(r)) \ {{}}
    /\ resumePc = "successful"
    /\ mpc = "idle"
    /\ mOut = "original_file"
    /\ mSections = <<>>
    /\ mMissing = <<>>
    /\ mResult = "none"
    /\ FilterIdle
    /\ SessionIdle
    /\ RoundIdle
    /\ StatsIdle
    /\ DeriveIdle
    /\ ParseFileIdle
    /\ MainIdle
    /\ StreamIdle
    /\ RerunIdle

\* faulty variant: the merge is called without the backup copy
ResumeBackupSkipped ==
    /\ resumePc = "successful"
    /\ resumePc' = "merging"
    /\ mpc' = "start"
    /\ UNCHANGED <<files, mOut, mAuth, mSections, mMissing, mResult, varsFilter, varsSession,
                   varsRound, varsStats, varsDerive, varsParseFile, varsMain, varsStream, varsRerun>>

\* shutil.copy(original_file, backup_file), then the call of the merge
ResumeBackup ==
    /\ resumePc = "successful"
    /\ files' = [files EXCEPT !["backup_file"] = files["original_file"]]
    /\ resumePc' = "merging"
    /\ mpc' = "start"
    /\ UNCHANGED <<mOut, mAuth, mSections, mMissing, mResult, varsFilter, varsSession,
                   varsRound, varsStats, varsDerive, varsParseFile, varsMain, varsStream, varsRerun>>

\* the merge returned True: "Merged n benchmark(s) into original_file"
ResumeMerged ==
    /\ resumePc = "merging"
    /\ mpc = "returned"
    /\ mResult = "True"
    /\ resumePc' = "done"
    /\ UNCHANGED <<files, varsMerge, varsFilter, varsSession, varsRound, varsStats,
                   varsDerive, varsParseFile, varsMain, varsStream, varsRerun>>

\* the merge returned False: shutil.copy(backup_file, original_file)
ResumeRestore ==
    /\ resumePc = "merging"
    /\ mpc = "returned"
    /\ mResult = "False"
    /\ files' = [files EXCEPT !["original_file"] = files["backup_file"]]
    /\ resumePc' = "done"
    /\ UNCHANGED <<varsMerge, varsFilter, varsSession, varsRound, varsStats,
                   varsDerive, varsParseFile, varsMain, varsStream, varsRerun>>

NextResume ==
    \/ ResumeBackup
    \/ MergeCompute
    \/ MergeCreateTemp
    \/ MergeWriteLine
    \/ MergeRename
    \/ MergeFails
    \/ ResumeMerged
    \/ ResumeRestore

SpecResume == InitResume /\ [][NextResume]_vars

(***************************************************************************)
(* Claims about the resume-mode merge (checked under SpecResume).          *)
(***************************************************************************)
\* C21: a merged report is a new artifact: no step of a merge changes the
\* content of the file read as the original report nor of the replacement
\* report file.
C21_MergeLeavesInputsUnchanged ==
    [][(mpc \in {"start", "merged", "writing"}) =>
           /\ files'["original_file"] = files["original_file"]
           /\ files'["retry_file"] = files["retry_file"]]_vars

\* C21, its case: the resume-mode merge has returned True and the original
\* report, two samples of BenchmarkB before it, holds the two samples of the
\* replacement report; the earlier content is in the backup only.
C21_Witness ==
    /\ resumePc = "done"
    /\ mResult = "True"
    /\ mOut = "original_file"
    /\ files["backup_file"] = <<BenchLine(BenchmarkB, 100), BenchLine(BenchmarkB, 100)>>
    /\ files["retry_file"] = <<BenchLine(BenchmarkB, 200), BenchLine(BenchmarkB, 300)>>
    /\ files["original_file"] = files["retry_file"]

\* C34: in resume mode a backup holding the original report's pre-merge
\* content exists while the merge runs, until the report is replaced; after
\* the merge step the original report is the complete merged report (the
\* merge of the pre-merge content) when the merge succeeded, and exactly its
\* pre-merge content when it failed.
C34_BackupBeforeInPlaceMerge ==
    /\ (resumePc = "merging" /\ mpc # "returned") =>
           /\ files["backup_file"] # NoFile
           /\ files["backup_file"] = files["original_file"]
    /\ (resumePc \in {"merging", "done"} /\ mpc = "returned") =>
           files["original_file"] =
               IF mResult = "True"
               THEN Serialize(MergeSections(parse_benchmark_file(files["backup_file"]),
                                            parse_benchmark_file(files["retry_file"]), mAuth))
               ELSE files["backup_file"]

\* C34, its case: the merge failed while it wrote the temporary file, the
\* backup was copied back and the original report, a section with a
\* benchmark the merge was to replace, is what it was.
C34_Witness ==
    /\ resumePc = "done"
    /\ mResult = "False"
    /\ BenchmarkB \in mAuth
    /\ files["backup_file"] = <<GoosLine, BenchLine(BenchmarkB, 100), FootLine>>
    /\ files["original_file"] = files["backup_file"]
    /\ files["temp"] = NoFile

(***************************************************************************)
(* derive_original_output_file as a one-step machine.  A path is its       *)
(* parent directory and its name; a name is a sequence of tokens: text     *)
(* without a dot ("ts", "_failed_benchmarks") and extensions (".txt",      *)
(* ".log": a dot and text after it).                                       *)
(***************************************************************************)
MaxNameTokens == 3

FailedSuffix == "_failed_benchmarks"
ExtensionTokens == {".txt", ".log"}
NameTokens == {"ts", FailedSuffix} \cup ExtensionTokens
Parents == {"results/go1.23", "."}

\* Path.stem: the name up to its last dot, the whole name when it has no dot
\* or only a leading one
Stem(name) ==
    LET dots == {i \in 1..Len(name) : name[i] \in ExtensionTokens}
    IN IF dots = {} THEN name
       ELSE LET last == CHOOSE i \in dots : \A j \in dots : j <= i
            IN IF last = 1 THEN name ELSE SubSeq(name, 1, last - 1)

\* stem.endswith('_failed_benchmarks')
EndsWithFailedSuffix(stem) == stem # <<>> /\ stem[Len(stem)] = FailedSuffix

ValueError == [kind |-> "ValueError", parent |-> "", name |-> <<>>]

\* faulty variant: the suffix is looked for in the name, extension included
derive_original_output_file_by_name(path) ==
    IF Len(path.name) >= 2 /\ path.name[Len(path.name)] = ".txt"
          /\ path.name[Len(path.name) - 1] = FailedSuffix
    THEN [kind |-> "path", parent |-> path.parent,
          name |-> Append(SubSeq(path.name, 1, Len(path.name) - 2), ".txt")]
    ELSE ValueError

derive_original_output_file(path) ==
    LET stem == Stem(path.name)
    IN IF EndsWithFailedSuffix(stem)
       THEN [kind |-> "path", parent |-> path.parent,
             name |-> Append(SubSeq(stem, 1, Len(stem) - 1), ".txt")]
       ELSE ValueError

InitDerive ==
    /\ dpc = "start"
    /\ \E d \in Parents, nm \in SeqsUpTo(NameTokens, MaxNameTokens) \ {<<>>} :
          dPath = [parent |-> d, name |-> nm]
    /\ dResult = <<>>
    /\ files = <<>>
    /\ MergeIdle
    /\ FilterIdle
    /\ SessionIdle
    /\ RoundIdle
    /\ StatsIdle
    /\ ResumeIdle
    /\ ParseFileIdle
    /\ MainIdle
    /\ StreamIdle
    /\ RerunIdle

\* derive_original_output_file(args.rerun_failed)
Derive ==
    /\ dpc = "start"
    /\ dResult' = derive_original_output_file(dPath)
    /\ dpc' = "returned"
    /\ UNCHANGED <<files, dPath, varsMerge, varsFilter, varsSession, varsRound, varsStats,
                   varsResume, varsParseFile, varsMain, varsStream, varsRerun>>

NextDerive == Derive

SpecDerive == InitDerive /\ [][NextDerive]_vars

(***************************************************************************)
(* Claims about derive_original_output_file (checked under SpecDerive).    *)
(***************************************************************************)
\* C23: for every path whose stem ends with _failed_benchmarks the result is
\* the path in the same directory whose name is the stem with that suffix
\* removed plus .txt; for every other path a ValueError is raised and no path
\* is returned.
C23_DeriveStripsSuffixOrRaises ==
    dpc = "returned" =>
        IF EndsWithFailedSuffix(Stem(dPath.name))
        THEN /\ dResult.kind = "path"
             /\ dResult.parent = dPath.parent
             /\ dResult.name # <<>>
             /\ dResult.name[Len(dResult.name)] = ".txt"
             /\ SubSeq(dResult.name, 1, Len(dResult.name) - 1) \o <<FailedSuffix>>
                    = Stem(dPath.name)
        ELSE dResult = ValueError

\* C23, its case: results/go1.23/ts_failed_benchmarks.log, whose stem ends with
\* the suffix although its name does not end with _failed_benchmarks.txt,
\* gives results/go1.23/ts.txt.
C23_Witness ==
    /\ dpc = "returned"
    /\ dPath = [parent |-> "results/go1.23", name |-> <<"ts", FailedSuffix, ".log">>]
    /\ dResult = [kind |-> "path", parent |-> "results/go1.23", name |-> <<"ts", ".txt">>]

(***************************************************************************)
(* BenchmarkParser.parse_file field by field.  Here a line is the sequence *)
(* of its whitespace-separated fields, a field a record [t, n, s, d]:      *)
(*   "name"  the first field of a line: s tells what precedes the CPU      *)
(*           suffix ("Benchmark+": Benchmark and at least one more         *)
(*           character, "Benchmark": nothing more, "other": no Benchmark   *)
(*           prefix), n is that text as a name, d the N of the suffix -N   *)
(*           (0: no suffix);                                               *)
(*   "int"   digits only, d the number;                                    *)
(*   "dec"   digits, a dot, digits: d the whole part, s the digits after   *)
(*           the dot;                                                      *)
(*   "unit"  s one of ns/op, B/op, allocs/op, MB/s;                        *)
(*   "word"  anything else (s).                                            *)
(* A line of kind "bench" of the report model above is one this pattern    *)
(* matches.                                                                *)
(***************************************************************************)
MaxMoreLines == 1

NameField(kind, name, cpu) == [t |-> "name", n |-> name, s |-> kind, d |-> cpu]
IntField(d) == [t |-> "int", n |-> NoName, s |-> "", d |-> d]
DecField(whole, frac) == [t |-> "dec", n |-> NoName, s |-> frac, d |-> whole]
UnitField(u) == [t |-> "unit", n |-> NoName, s |-> u, d |-> 0]
WordField(w) == [t |-> "word", n |-> NoName, s |-> w, d |-> 0]

\* Optional[int] None
None == -1

\* faulty variant: the -N suffix is not required
BENCH_PATTERN_no_suffix(line) ==
    /\ Len(line) >= 4
    /\ line[1].t = "name" /\ line[1].s = "Benchmark+"
    /\ line[2].t = "int"
    /\ line[3].t \in {"int", "dec"}
    /\ line[4] = UnitField("ns/op")

\* BENCH_PATTERN.match(line): ^(Benchmark\S+)-\d+\s+(\d+)\s+(\d+(?:\.\d+)?)\s+ns/op
BENCH_PATTERN(line) ==
    /\ Len(line) >= 4
    /\ line[1].t = "name" /\ line[1].s = "Benchmark+" /\ line[1].d > 0
    /\ line[2].t = "int"
    /\ line[3].t \in {"int", "dec"}
    /\ line[4] = UnitField("ns/op")

\* the optional group (?:\s+(\d+)\s+<unit>)? tried at field k
OptionalGroup(line, k, unit) ==
    Len(line) >= k + 1 /\ line[k].t = "int" /\ line[k + 1] = UnitField(unit)

\* float(ns_op): whole part and digits after the dot
FloatOf(field) == IF field.t = "dec" THEN <<field.d, field.s>> ELSE <<field.d, "0">>

\* the BenchmarkResult of a matching line
BenchmarkResult(line) ==
    LET hasBytes == OptionalGroup(line, 5, "B/op")
        at == IF hasBytes THEN 7 ELSE 5
    IN [name |-> line[1].n,
        iterations |-> line[2].d,
        ns_per_op |-> FloatOf(line[3]),
        bytes_per_op |-> IF hasBytes THEN line[5].d ELSE None,
        allocs_per_op |-> IF OptionalGroup(line, at, "allocs/op") THEN line[at].d ELSE None]

\* parse_file on the lines of the file
parse_file_fields(lines) ==
    LET hits == SelectSeq(lines, BENCH_PATTERN)
    IN [i \in 1..Len(hits) |-> BenchmarkResult(hits[i])]

FirstFields == {NameField("Benchmark+", BenchmarkA, 16), NameField("Benchmark+", BenchmarkA, 0),
                NameField("Benchmark", <<"Benchmark">>, 16), NameField("other", <<"TestA">>, 16)}
IterationFields == {IntField(1000), IntField(0), WordField("-5")}
DurationFields == {IntField(100), DecField(12, "5"), WordField("1e3")}
FourthFields == {UnitField("ns/op"), UnitField("MB/s")}
LineTails == {<<>>,
              <<IntField(256), UnitField("B/op")>>,
              <<IntField(4), UnitField("allocs/op")>>,
              <<IntField(256), UnitField("B/op"), IntField(4), UnitField("allocs/op")>>,
              <<DecField(10, "5"), UnitField("MB/s"), IntField(256), UnitField("B/op")>>,
              <<WordField("x"), UnitField("B/op")>>,
              <<IntField(256)>>}

\* lines of four fields and a tail, and lines cut short
FieldLines ==
    {<<a, b, c, d>> \o tail : a \in FirstFields, b \in IterationFields, c \in DurationFields,
                              d \in FourthFields, tail \in LineTails}
        \cup {<<>>, <<WordField("PASS")>>,
              <<NameField("Benchmark+", BenchmarkA, 16), IntField(1000), IntField(100)>>}

\* the other lines of the file: a result line of BenchmarkB, a header line
MoreLines == {<<NameField("Benchmark+", BenchmarkB, 16), IntField(1000), IntField(100),
                UnitField("ns/op")>>,
              <<WordField("goos:"), WordField("linux")>>}

InitParseFile ==
    /\ ppc = "start"
    /\ \E line \in FieldLines, more \in SeqsUpTo(MoreLines, MaxMoreLines) :
          \/ pLines = <<line>> \o more
          \/ pLines = more \o <<line>>
    /\ pResults = <<>>
    /\ files = <<>>
    /\ MergeIdle
    /\ FilterIdle
    /\ SessionIdle
    /\ RoundIdle
    /\ StatsIdle
    /\ ResumeIdle
    /\ DeriveIdle
    /\ MainIdle
    /\ StreamIdle
    /\ RerunIdle

\* parser.parse_file(filepath)
ParseFile ==
    /\ ppc = "start"
    /\ pResults' = parse_file_fields(pLines)
    /\ ppc' = "returned"
    /\ UNCHANGED <<files, pLines, varsMerge, varsFilter, varsSession, varsRound, varsStats,
                   varsResume, varsDerive, varsMain, varsStream, varsRerun>>

NextParseFile == ParseFile

SpecParseFile == InitParseFile /\ [][NextParseFile]_vars

(***************************************************************************)
(* Claims about parse_file (checked under SpecParseFile).                  *)
(***************************************************************************)
\* a line with a Benchmark identifier and a trailing -N suffix, an integer
\* iteration count of at least least, and a duration followed by ns/op
Recognized(line, least) ==
    /\ Len(line) >= 4
    /\ line[1].t = "name" /\ line[1].s = "Benchmark+" /\ line[1].d >= 1
    /\ line[2].t = "int" /\ line[2].d >= least
    /\ line[3].t \in {"int", "dec"}
    /\ line[4].t = "unit" /\ line[4].s = "ns/op"

\* the field before the unit token, or None when the line has no such token
BeforeUnit(line, unit) ==
    LET at == {i \in 2..Len(line) : line[i] = UnitField(unit)}
    IN IF at = {} THEN {None} ELSE {line[i - 1].d : i \in at}

\* one sample per recognized line, in file order, with the name, the count
\* and the duration of its line; bytes and allocs only from a line that has
\* their unit tokens
SamplesOfRecognized(least) ==
    LET hits == SelectSeq(pLines, LAMBDA l : Recognized(l, least))
    IN /\ Len(pResults) = Len(hits)
       /\ \A i \in 1..Len(hits) :
             /\ pResults[i].name = hits[i][1].n
             /\ pResults[i].iterations = hits[i][2].d
             /\ pResults[i].ns_per_op[1] = hits[i][3].d
             /\ pResults[i].bytes_per_op # None
                    => pResults[i].bytes_per_op \in BeforeUnit(hits[i], "B/op") \ {None}
             /\ pResults[i].allocs_per_op # None
                    => pResults[i].allocs_per_op \in BeforeUnit(hits[i], "allocs/op") \ {None}

\* C27 as stated: parse_file yields one sample per recognized result line, in
\* file order, and none for any other line; a line is recognized only if it
\* has a Benchmark identifier with a trailing -N suffix, a positive integer
\* iteration count and a duration followed by ns/op; the sample's name is the
\* identifier without the suffix; bytes and allocs are set only when their
\* unit tokens are present.
C27_Original_SamplesOfResultLines ==
    ppc = "returned" => SamplesOfRecognized(1)

\* C27 amended: the same, the iteration count being any integer written in
\* digits, 0 included.
C27_SamplesOfResultLines ==
    ppc = "returned" => SamplesOfRecognized(0)

\* C27, its case: a line with the iteration count 0 and both optional groups,
\* followed by a result line of BenchmarkB, gives two samples in file order;
\* the first has iterations 0, 256 bytes and 4 allocs.
C27_Witness ==
    /\ ppc = "returned"
    /\ pLines[1] = <<NameField("Benchmark+", BenchmarkA, 16), IntField(0), DecField(12, "5"),
                     UnitField("ns/op"), IntField(256), UnitField("B/op"),
                     IntField(4), UnitField("allocs/op")>>
    /\ Len(pLines) = 2
    /\ pResults = <<[name |-> BenchmarkA, iterations |-> 0, ns_per_op |-> <<12, "5">>,
                     bytes_per_op |-> 256, allocs_per_op |-> 4],
                    [name |-> BenchmarkB, iterations |-> 1000, ns_per_op |-> <<100, "0">>,
                     bytes_per_op |-> None, allocs_per_op |-> None]>>

(***************************************************************************)
(* main: the loop over args.versions.  One iteration is the call of        *)
(* progress.start_version (when --progress is given) followed by the body  *)
(* of the loop; what the body meets (no Go binary, a failing platform      *)
(* detection, a session that fails, an exception, a user interrupt) is     *)
(* the environment's choice.  progress_state is progress.state; without    *)
(* --progress there is no tracker and it is never written.                 *)
(***************************************************************************)
MaxVersions == 2

VersionNames == {"1.23", "1.24"}

NoVersion == "None"

\* ProgressTracker.__init__
InitialProgress(versions) ==
    [versions |-> [v \in Range(versions) |-> "pending"], current_version |-> NoVersion]

\* ProgressTracker.start_version
start_version(state, version) ==
    [state EXCEPT !.current_version = version, !.versions[version] = "running"]

\* ProgressTracker.complete_version
complete_version(state, version, success) ==
    [state EXCEPT !.versions[version] = IF success THEN "complete" ELSE "failed",
                  !.current_version = NoVersion]

InitMain ==
    /\ mainPc = "loop"
    /\ args_versions \in SeqsUpTo(VersionNames, MaxVersions) \ {<<>>}
    /\ args_rerun_failed \in BOOLEAN
    /\ args_progress \in BOOLEAN
    /\ version_index = 0
    /\ progress_state = InitialProgress(args_versions)
    /\ results_dir = "None"
    /\ started = {}
    /\ raised = "none"
    /\ exit_status = NoStatus
    /\ troubled = {}
    /\ files = <<>>
    /\ MergeIdle
    /\ FilterIdle
    /\ SessionIdle
    /\ RoundIdle
    /\ StatsIdle
    /\ ResumeIdle
    /\ DeriveIdle
    /\ ParseFileIdle
    /\ StreamIdle
    /\ RerunIdle

version == args_versions[version_index]

\* what stays as it is in every step of main
MainFrame ==
    UNCHANGED <<files, args_versions, args_rerun_failed, args_progress, varsMerge, varsFilter,
                varsSession, varsRound, varsStats, varsResume, varsDerive, varsParseFile, varsStream, varsRerun>>

\* for version in args.versions: progress.start_version(version)
NextVersion ==
    /\ mainPc = "loop"
    /\ version_index < Len(args_versions)
    /\ version_index' = version_index + 1
    /\ started' = started \cup {version_index + 1}
    /\ progress_state' = IF args_progress
                         THEN start_version(progress_state, args_versions[version_index + 1])
                         ELSE progress_state
    /\ mainPc' = "body"
    /\ UNCHANGED <<results_dir, raised, exit_status, troubled>>
    /\ MainFrame

\* the loop is over: the final summary
LoopEnds ==
    /\ mainPc = "loop"
    /\ version_index = Len(args_versions)
    /\ mainPc' = "exited"
    /\ exit_status' = 0
    /\ UNCHANGED <<version_index, progress_state, results_dir, started, raised, troubled>>
    /\ MainFrame

\* find_go_binary returned None: "Go <version> not found", continue
GoNotFound ==
    /\ mainPc = "body"
    /\ mainPc' = "loop"
    /\ UNCHANGED <<version_index, progress_state, results_dir, started, raised, exit_status, troubled>>
    /\ MainFrame

\* detect_platform raises RuntimeError; the call is outside every try
PlatformFails ==
    /\ mainPc = "body"
    /\ results_dir = "None"
    /\ raised' = "RuntimeError"
    /\ mainPc' = "raised"
    /\ exit_status' = 1
    /\ UNCHANGED <<version_index, progress_state, results_dir, started, troubled>>
    /\ MainFrame

\* a user interrupt outside the try of the fresh collection: before it, or
\* anywhere in the resume branch
UncaughtInterrupt ==
    /\ mainPc = "body"
    /\ raised' = "KeyboardInterrupt"
    /\ mainPc' = "raised"
    /\ exit_status' = 130
    /\ UNCHANGED <<version_index, progress_state, results_dir, started, troubled>>
    /\ MainFrame

\* resume branch: the names file is missing or empty, the original report's
\* name cannot be derived or the report is missing: continue
ResumeSkips ==
    /\ mainPc = "body"
    /\ args_rerun_failed
    /\ results_dir' = "set"
    /\ mainPc' = "loop"
    /\ UNCHANGED <<version_index, progress_state, started, raised, exit_status, troubled>>
    /\ MainFrame

\* resume branch: an exception in what follows (the session, the backup
\* copy, the rewrite of the names file); no handler encloses the branch
ResumeRaises ==
    /\ mainPc = "body"
    /\ args_rerun_failed
    /\ results_dir' = "set"
    /\ raised' = "Exception"
    /\ mainPc' = "raised"
    /\ exit_status' = 1
    /\ UNCHANGED <<version_index, progress_state, started, troubled>>
    /\ MainFrame

\* resume branch run to its end: complete_version(version, total,
\* success=len(still_failing) == 0), continue
ResumeCompletes ==
    /\ mainPc = "body"
    /\ args_rerun_failed
    /\ results_dir' = "set"
    /\ \E success \in BOOLEAN :
          /\ progress_state' = IF args_progress
                               THEN complete_version(progress_state, version, success)
                               ELSE progress_state
          /\ troubled' = IF success THEN troubled ELSE troubled \cup {version_index}
    /\ mainPc' = "loop"
    /\ UNCHANGED <<version_index, started, raised, exit_status>>
    /\ MainFrame

\* fresh collection: run_system_check returned False: continue
SystemCheckDeclined ==
    /\ mainPc = "body"
    /\ ~args_rerun_failed
    /\ results_dir' = "set"
    /\ mainPc' = "loop"
    /\ UNCHANGED <<version_index, progress_state, started, raised, exit_status, troubled>>
    /\ MainFrame

\* fresh collection: the session returned: complete_version(version, total,
\* success=False) on the "Benchmark collection failed" branch, success=True
\* otherwise, whether or not benchmarks are still failing
FreshCompletes ==
    /\ mainPc = "body"
    /\ ~args_rerun_failed
    /\ results_dir' = "set"
    /\ \E outcome \in {"failed", "unresolved", "clean"} :
          /\ progress_state' = IF args_progress
                               THEN complete_version(progress_state, version,
                                                     outcome # "failed")
                               ELSE progress_state
          /\ troubled' = IF outcome = "clean" THEN troubled
                                              ELSE troubled \cup {version_index}
    /\ mainPc' = "loop"
    /\ UNCHANGED <<version_index, started, raised, exit_status>>
    /\ MainFrame

\* fresh collection: "except Exception": complete_version(.., success=False),
\* continue
FreshException ==
    /\ mainPc = "body"
    /\ ~args_rerun_failed
    /\ results_dir' = "set"
    /\ progress_state' = IF args_progress
                         THEN complete_version(progress_state, version, FALSE)
                         ELSE progress_state
    /\ mainPc' = "loop"
    /\ troubled' = troubled \cup {version_index}
    /\ UNCHANGED <<version_index, started, raised, exit_status>>
    /\ MainFrame

\* fresh collection: "except KeyboardInterrupt": complete_version(..,
\* success=False), raise
FreshInterrupted ==
    /\ mainPc = "body"
    /\ ~args_rerun_failed
    /\ results_dir' = "set"
    /\ progress_state' = IF args_progress
                         THEN complete_version(progress_state, version, FALSE)
                         ELSE progress_state
    /\ raised' = "KeyboardInterrupt"
    /\ mainPc' = "raised"
    /\ exit_status' = 130
    /\ troubled' = troubled \cup {version_index}
    /\ UNCHANGED <<version_index, started>>
    /\ MainFrame

NextMain ==
    \/ NextVersion
    \/ LoopEnds
    \/ GoNotFound
    \/ PlatformFails
    \/ UncaughtInterrupt
    \/ ResumeSkips
    \/ ResumeRaises
    \/ ResumeCompletes
    \/ SystemCheckDeclined
    \/ FreshException
    \/ FreshCompletes
    \/ FreshInterrupted

SpecMain == InitMain /\ [][NextMain]_vars

(***************************************************************************)
(* Claims about the loop over the versions (checked under SpecMain).       *)
(***************************************************************************)
\* C29: a fatal error in one version's session (no Go binary, a platform
\* detection failure, an executor or build failure, any exception other than
\* a user interrupt) aborts only that version: unless a user interrupt ended
\* the program, when main is over an iteration has been started for every
\* version of the command line, in fresh and in resume mode.
C29_FatalErrorAbortsOneVersion ==
    (mainPc \in {"exited", "raised"} /\ raised # "KeyboardInterrupt") =>
        started = 1..Len(args_versions)

\* C29, its case: two versions, the platform detection fails for the first:
\* the RuntimeError leaves main and the second version is never started.
C29_Witness ==
    /\ mainPc = "raised"
    /\ raised = "RuntimeError"
    /\ args_versions = <<"1.23", "1.24">>
    /\ started = {1}

\* C30: versions are processed strictly sequentially: in every state of the
\* progress record at most one version has status running.
C30_AtMostOneRunning ==
    Cardinality({v \in DOMAIN progress_state.versions :
                    progress_state.versions[v] = "running"}) <= 1

\* C30, its case: with --progress, no Go binary was found for 1.23, the loop
\* went on and started 1.24: both versions have status running.
C30_Witness ==
    /\ mainPc = "body"
    /\ args_progress
    /\ args_versions = <<"1.23", "1.24">>
    /\ version_index = 2
    /\ progress_state.versions["1.23"] = "running"
    /\ progress_state.versions["1.24"] = "running"
    /\ progress_state.current_version = "1.24"

\* C31: every version whose session was started has progress status
\* complete or failed before the next version starts and before the program
\* exits or an interruption leaves main: whenever main is between two
\* iterations or over, no version has status running and current_version
\* is empty, in fresh and in resume mode.
C31_StartedVersionsAreClosed ==
    (args_progress /\ mainPc \in {"loop", "exited", "raised"}) =>
        /\ \A v \in DOMAIN progress_state.versions :
              progress_state.versions[v] # "running"
        /\ progress_state.current_version = NoVersion

\* C31, its case: the only version was started, no Go binary was found for
\* it, and the program exited with the version still running in the record.
C31_Witness ==
    /\ mainPc = "exited"
    /\ args_progress
    /\ args_versions = <<"1.23">>
    /\ started = {1}
    /\ progress_state.versions["1.23"] = "running"
    /\ progress_state.current_version = "1.23"

\* C32: when main has returned, the exit status is zero exactly if no version
\* ended with unresolved benchmarks or a failed session.
C32_ExitStatusTellsUnresolved ==
    mainPc = "exited" => (exit_status = 0 <=> troubled = {})

\* C32, its case: the session of the only version failed or left benchmarks
\* unresolved, and the process exited with status zero.
C32_Witness ==
    /\ mainPc = "exited"
    /\ Len(args_versions) = 1
    /\ troubled = {1}
    /\ exit_status = 0

(***************************************************************************)
(* StreamingBenchmarkRunner.run_with_streaming: the executor is a child    *)
(* process; its output is read line by line inside a try whose finally     *)
(* clause cleans the child up.  The child writes, closes its output and    *)
(* exits when it wants; an exception or a user interrupt can be raised     *)
(* while the output is read or while proc.wait() blocks.  SIGKILL cannot   *)
(* be caught, so the wait after proc.kill() returns with the child gone.   *)
(***************************************************************************)
MaxOutputLines == 2

OutputLineKinds == {"bench", "other"}

InitStream ==
    /\ xpc = "start"
    /\ child = "none"
    /\ stdout_eof = FALSE
    /\ output_lines = <<>>
    /\ signals = <<>>
    /\ leftBy = "none"
    /\ files = <<>>
    /\ MergeIdle
    /\ FilterIdle
    /\ SessionIdle
    /\ RoundIdle
    /\ StatsIdle
    /\ ResumeIdle
    /\ DeriveIdle
    /\ ParseFileIdle
    /\ MainIdle
    /\ RerunIdle

StreamFrame ==
    UNCHANGED <<files, varsMerge, varsFilter, varsSession, varsRound, varsStats, varsResume,
                varsDerive, varsParseFile, varsMain, varsRerun>>

\* proc = subprocess.Popen(cmd, ...)
Popen ==
    /\ xpc = "start"
    /\ child' = "running"
    /\ xpc' = "reading"
    /\ UNCHANGED <<stdout_eof, output_lines, signals, leftBy>>
    /\ StreamFrame

\* the child closes its output (it may go on running)
ChildClosesStdout ==
    /\ child = "running"
    /\ ~stdout_eof
    /\ stdout_eof' = TRUE
    /\ UNCHANGED <<xpc, child, output_lines, signals, leftBy>>
    /\ StreamFrame

\* the child exits: on its own, or because of a signal it was sent
ChildExits ==
    /\ child = "running"
    /\ child' = "exited"
    /\ stdout_eof' = TRUE
    /\ UNCHANGED <<xpc, output_lines, signals, leftBy>>
    /\ StreamFrame

\* for line in proc.stdout: output_lines.append(line)
ReadLine ==
    /\ xpc = "reading"
    /\ ~stdout_eof
    /\ Len(output_lines) < MaxOutputLines
    /\ \E line \in OutputLineKinds : output_lines' = Append(output_lines, line)
    /\ UNCHANGED <<xpc, child, stdout_eof, signals, leftBy>>
    /\ StreamFrame

\* the for loop ends at the end of the output: proc.wait()
ReadEnds ==
    /\ xpc = "reading"
    /\ stdout_eof
    /\ xpc' = "waiting"
    /\ UNCHANGED <<child, stdout_eof, output_lines, signals, leftBy>>
    /\ StreamFrame

\* proc.wait() returns; return proc.returncode, full_output, all_failed
WaitReturns ==
    /\ xpc = "waiting"
    /\ child = "exited"
    /\ leftBy' = "return"
    /\ xpc' = "finally"
    /\ UNCHANGED <<child, stdout_eof, output_lines, signals>>
    /\ StreamFrame

\* an exception or a user interrupt is raised inside the try
RaisedInTry ==
    /\ xpc \in {"reading", "waiting"}
    /\ \E how \in {"exception", "interrupt"} : leftBy' = how
    /\ xpc' = "finally"
    /\ UNCHANGED <<child, stdout_eof, output_lines, signals>>
    /\ StreamFrame

\* a cleanup that closes the output and never looks at the child
FinallyWithoutTerminate ==
    /\ xpc = "finally"
    /\ xpc' = "closing"
    /\ UNCHANGED <<child, stdout_eof, output_lines, signals, leftBy>>
    /\ StreamFrame

\* finally: if proc.poll() is None: proc.terminate()
Finally ==
    /\ xpc = "finally"
    /\ IF child = "running"
       THEN /\ signals' = Append(signals, "SIGTERM")
            /\ xpc' = "grace"
       ELSE /\ signals' = signals
            /\ xpc' = "closing"
    /\ UNCHANGED <<child, stdout_eof, output_lines, leftBy>>
    /\ StreamFrame

\* proc.wait(timeout=5) returns: the child has exited within the grace period
GraceWaitReturns ==
    /\ xpc = "grace"
    /\ child = "exited"
    /\ xpc' = "closing"
    /\ UNCHANGED <<child, stdout_eof, output_lines, signals, leftBy>>
    /\ StreamFrame

\* except subprocess.TimeoutExpired: proc.kill(); proc.wait()
GraceExpires ==
    /\ xpc = "grace"
    /\ child = "running"
    /\ signals' = Append(signals, "SIGKILL")
    /\ child' = "exited"
    /\ stdout_eof' = TRUE
    /\ xpc' = "closing"
    /\ UNCHANGED <<output_lines, leftBy>>
    /\ StreamFrame

\* if proc.stdout: proc.stdout.close(); the function is left
CloseStdout ==
    /\ xpc = "closing"
    /\ xpc' = "left"
    /\ UNCHANGED <<child, stdout_eof, output_lines, signals, leftBy>>
    /\ StreamFrame

NextStream ==
    \/ Popen
    \/ ChildClosesStdout
    \/ ChildExits
    \/ ReadLine
    \/ ReadEnds
    \/ WaitReturns
    \/ RaisedInTry
    \/ Finally
    \/ GraceWaitReturns
    \/ GraceExpires
    \/ CloseStdout

SpecStream == InitStream /\ [][NextStream]_vars

(***************************************************************************)
(* Claims about run_with_streaming (checked under SpecStream).             *)
(***************************************************************************)
\* C33: whenever run_with_streaming is left, by its return or by an
\* exception or a user interrupt raised while the output was read, the child
\* is no longer running; a child found alive was first sent SIGTERM, and
\* SIGKILL only when the grace period expired after that.
C33_ChildGoneWhenLeft ==
    /\ xpc = "left" => child = "exited"
    /\ signals \in {<<>>, <<"SIGTERM">>, <<"SIGTERM", "SIGKILL">>}
    /\ (xpc \in {"closing", "left"} /\ signals = <<>>) => child = "exited"

\* C33, its case: a user interrupt was raised while the output was read, the
\* child did not exit within the grace period and was killed.
C33_Witness ==
    /\ xpc = "left"
    /\ leftBy = "interrupt"
    /\ Len(output_lines) = 1
    /\ signals = <<"SIGTERM", "SIGKILL">>
    /\ child = "exited"

(***************************************************************************)
(* main, resume mode (--rerun-failed), one version: the names of the names *)
(* file are re-run by run_variance_aware_benchmarks (the session of the    *)
(* fresh collection, its initial run being the re-run), then main merges   *)
(* the successful names from the session's output file into the original   *)
(* report, rewrites the names file and completes the version.  The merge   *)
(* is merge_benchmark_results as one step: it returns True with the merged *)
(* text in place, or False (an exception inside it) with nothing written.  *)
(***************************************************************************)
\* the names files: BenchmarkB is in no report the executor produces
ListedNames == {<<BenchmarkA>>, <<BenchmarkA, BenchmarkPSub1>>, <<BenchmarkA, BenchmarkB>>}

OriginalReport ==
    <<GoosLine, BenchLine(BenchmarkA, 100), BenchLine(BenchmarkA, 300),
      BenchLine(BenchmarkPSub1, 100), BenchLine(BenchmarkB, 100), FootLine>>

InitRerun ==
    /\ files = [i \in 0..MaxReruns |-> NoFile]
    /\ pc = "start"
    /\ variance_threshold = VARIANCE_WARNING     \* the default of --variance-threshold
    /\ max_reruns \in 0..MaxReruns
    /\ retry_count = 0
    /\ stats = NoStats
    /\ failed = {}
    /\ bench_filters = <<>>
    /\ result = NoResult
    /\ versionStatus = "pending"
    /\ failurePath = FALSE
    /\ failedFile = NoFailedFile
    /\ mergeCalls = 0
    /\ analyses = <<>>
    /\ execFailedAt = -1
    /\ resolved = NoStats
    /\ failed_benchmarks \in ListedNames
    /\ failed_file = failed_benchmarks
    /\ original_file = OriginalReport
    /\ backup_file = NoFile
    /\ successful = <<>>
    /\ merge_ok = "none"
    /\ MergeIdle
    /\ FilterIdle
    /\ RoundIdle
    /\ StatsIdle
    /\ ResumeIdle
    /\ DeriveIdle
    /\ ParseFileIdle
    /\ MainIdle
    /\ StreamIdle

\* successful = [b for b in failed_benchmarks
\*               if b in result['stats'] and b not in result['failed_benchmarks']]
SuccessfulOf(names, res) ==
    SelectSeq(names, LAMBDA b : b \in DOMAIN res.stats /\ b \notin res.failed_benchmarks)

\* still_failing = [b for b in failed_benchmarks if b in result['failed_benchmarks']]
StillFailing(names, res) ==
    SelectSeq(names, LAMBDA b : b \in res.failed_benchmarks)

\* merge_benchmark_results(original_file, result['output_file'], original_file,
\* successful) when it returns True: the text left in the original report
MergedInto(original, replacement, names) ==
    Serialize(MergeSections(parse_benchmark_file(original),
                            parse_benchmark_file(replacement), Range(names)))

\* main after the session returned: successful, the backup and the merge,
\* the rewrite of the names file, progress.complete_version
ResumeFinish ==
    /\ pc = "returned"
    /\ successful' = SuccessfulOf(failed_benchmarks, result)
    /\ IF successful' # <<>>
       THEN /\ backup_file' = original_file
            /\ \E ok \in BOOLEAN :
                  /\ merge_ok' = IF ok THEN "True" ELSE "False"
                  /\ original_file' = IF ok
                                      THEN MergedInto(original_file, files[result.output_file],
                                                      successful')
                                      ELSE backup_file'
       ELSE UNCHANGED <<backup_file, merge_ok, original_file>>
    /\ failed_file' = StillFailing(failed_benchmarks, result)
    /\ versionStatus' = IF StillFailing(failed_benchmarks, result) = <<>>
                        THEN "complete" ELSE "failed"
    /\ pc' = "version_done"
    /\ UNCHANGED <<files, variance_threshold, max_reruns, retry_count, stats, failed,
                   bench_filters, result, failurePath, failedFile, mergeCalls, analyses,
                   execFailedAt, resolved, failed_benchmarks, varsMerge, varsFilter,
                   varsRound, varsStats, varsResume, varsDerive, varsParseFile, varsMain,
                   varsStream>>

NextRerun ==
    \/ StartVersion
    \/ RunInitial
    \/ AnalyzeInitial
    \/ RunRetry
    \/ AnalyzeRetry
    \/ Return
    \/ ResumeFinish

SpecRerun == InitRerun /\ [][NextRerun]_vars

(***************************************************************************)
(* Claims about the resume mode (checked under SpecRerun).                 *)
(***************************************************************************)
ResumeDone == pc = "version_done"

\* C37: in resume mode a name read from the names file is missing from the
\* rewritten file only if it was collected (it has statistics) and passed the
\* variance check, and so was given to the merge; a listed name that was not
\* collected at all is still listed in the rewritten file.
C37_OnlyPassedNamesAreRemoved ==
    ResumeDone =>
        \A b \in Range(failed_benchmarks) :
            /\ b \notin Range(failed_file) =>
                  /\ b \in DOMAIN result.stats
                  /\ b \notin result.failed_benchmarks
                  /\ b \in Range(successful)
            /\ b \notin DOMAIN result.stats => b \in Range(failed_file)

\* C37, its case: BenchmarkB was listed, the re-run succeeded and collected
\* no sample of it, and the rewritten names file is empty.
C37_Witness ==
    /\ ResumeDone
    /\ failed_benchmarks = <<BenchmarkA, BenchmarkB>>
    /\ execFailedAt = -1
    /\ BenchmarkA \in DOMAIN result.stats
    /\ BenchmarkB \notin DOMAIN result.stats
    /\ failed_file = <<>>

\* C38: in resume mode, when the executor of the first re-run fails, nothing
\* is merged into the original report, the names file keeps every name it
\* listed, and the version is marked failed.
C38_FailedRerunKeepsEverything ==
    (ResumeDone /\ execFailedAt = 0) =>
        /\ merge_ok = "none"
        /\ original_file = OriginalReport
        /\ failed_file = failed_benchmarks
        /\ versionStatus = "failed"

\* C38, its case: the executor of the first re-run failed without a crashed
\* benchmark to report; the names file was rewritten empty and the version
\* is marked complete.
C38_Witness ==
    /\ ResumeDone
    /\ execFailedAt = 0
    /\ ~result.success
    /\ failed_benchmarks = <<BenchmarkA, BenchmarkPSub1>>
    /\ merge_ok = "none"
    /\ failed_file = <<>>
    /\ versionStatus = "complete"

\* C39: in resume mode every benchmark given to a merge that succeeded has,
\* in the report file its replacement lines are taken from (the session's
\* output file), statistics with a CV that does not exceed the threshold.
C39_MergedLinesAreStable ==
    (ResumeDone /\ merge_ok = "True") =>
        \A b \in Range(successful) :
            LET source == calculate_stats(parse_file(files[result.output_file]))
            IN /\ b \in DOMAIN source
               /\ ~CvAbove(source[b], variance_threshold)

\* C39, its case: BenchmarkA failed the analysis of the first re-run (CV 40%)
\* and passed in retry 1; the merge took its lines from the first re-run's
\* report, and the original report now holds those four samples.
C39_Witness ==
    /\ ResumeDone
    /\ merge_ok = "True"
    /\ variance_threshold = 15
    /\ BenchmarkA \in analyses[1]
    /\ result.retry_count = 1
    /\ BenchmarkA \in Range(successful)
    /\ SamplesIn(files[result.output_file], BenchmarkA) = <<20, 20, 20, 40>>
    /\ SamplesIn(files[1], BenchmarkA) = <<20, 20>>
    /\ SamplesIn(original_file, BenchmarkA) = <<20, 20, 20, 40>>
====
